---- MODULE Spec2Model ----
(***************************************************************************)
(* spectater: verdict reconciliation of evaluate_requirements (src/app.py) *)
(* and the display step of the index route; text extraction by             *)
(* extract_text_from_file and the OCR wait of analyze_pdf_with_textract;   *)
(* the bucket and the staged objects of concurrent OCR calls, the page     *)
(* conversion of convert_textract_to_markdown, _html_table_to_md, the      *)
(* max_tokens computation and the policy handling of the index route.      *)
(*                                                                         *)
(* A model response is a sequence of lexemes.  Each lexeme is a concrete   *)
(* piece of text:                                                          *)
(*   "F"  three backticks (a code fence)                                   *)
(*   "j"  the word json                                                    *)
(*   "n"  a newline (whitespace)                                           *)
(*   "t"  a letter of prose                                                *)
(*   "{"  an opening brace          "}"  a closing brace                   *)
(*   "GREEN", "YELLOW", "ORANGE", "RED"  the word itself                   *)
(*   "P"  the serialised JSON object of the response, braces included; its *)
(*        strings hold no brace and no backtick, so its own braces are     *)
(*        balanced and it closes with the brace that matches its first.    *)
(* An optional JSON key is a sequence of length 0 (absent) or 1 (present). *)
(***************************************************************************)
EXTENDS Integers, Sequences, FiniteSets, TLC

\* ------------------------------------------------------------------ bounds
MaxReqs == 2
MaxCount == 1
MaxText == 4
MaxDoc == 2
MaxPages == 2
MaxBudget == 1
MaxWords == 3

\* result pages one OCR job can have (the service sends a NextToken with
\* every page but the last)
MaxResultPages == 2

\* concurrent calls of ensure_s3_bucket and of analyze_pdf_with_textract
MaxCallers == 2

\* browser sessions
MaxSessions == 2

\* files in the policy field of one request
MaxFiles == 1

\* cells of the tables of a page, and lines of a page
MaxCells == 1
MaxLines == 2

\* columns and data rows of an HTML table
MaxCols == 2
MaxRows == 1

\* -------------------------------------------------------------------- data
Tokens == {"F", "j", "n", "t", "{", "}", "P"}

Absent == <<>>

Some(v) == <<v>>

\* dict.get(key, default)
Get(opt, default) == IF opt = Absent THEN default ELSE opt[1]

PassValues == {Absent, Some(TRUE), Some(FALSE)}

StatusValues == {Absent, Some("PARTIAL"), Some("FULL")}

Items == [pass : PassValues, pass_status : StatusValues]

Arrays == UNION {[1..n -> Items] : n \in 0..MaxReqs}

CountValues == {Absent} \cup {Some(v) : v \in 0..MaxCount}

SummaryObjects ==
  [totalChecks : CountValues, passed : CountValues,
   partial : CountValues, failed : CountValues]

JsonObjects ==
  [requirements : {Absent} \cup {Some(a) : a \in Arrays},
   summary : {Absent} \cup {Some(s) : s \in SummaryObjects}]

\* the dict of the text {} : no key at all
EmptyObject == [requirements |-> Absent, summary |-> Absent]

\* the {} that json_data.get('summary', {}) falls back to
EmptySummary ==
  [totalChecks |-> Absent, passed |-> Absent, partial |-> Absent, failed |-> Absent]

TextsUpTo(n) == UNION {[1..k -> Tokens] : k \in 0..n}

\* the sequences over S of length at most n
SeqsUpTo(S, n) == UNION {[1..k -> S] : k \in 0..n}

\* ------------------------------------------------------- JSON extraction
IsOpen(c) == c \in {"{", "P"}

IsSpace(c) == c = "n"

\* str.strip() of the group: whitespace off both ends
RECURSIVE Strip(_)
Strip(s) ==
  IF s = <<>> THEN s
  ELSE IF IsSpace(s[1]) THEN Strip(Tail(s))
  ELSE IF IsSpace(s[Len(s)]) THEN Strip(SubSeq(s, 1, Len(s) - 1))
  ELSE s

\* after the fence at i: (?:json)?\s*\n? and then the brace that opens the
\* group; 0 when the fence at i is not followed that way
BodyStart(text, i) ==
  LET s == IF i + 1 <= Len(text) /\ text[i + 1] = "j" THEN i + 2 ELSE i + 1
      rest == {p \in s..Len(text) : ~IsSpace(text[p])}
  IN IF rest = {} THEN 0
     ELSE LET p == CHOOSE p \in rest : \A r \in rest : p <= r
          IN IF IsOpen(text[p]) THEN p ELSE 0

\* the places where the fenced pattern matches: an opening fence, the group's
\* brace, and some fence after it
FenceMatches(text) ==
  {i \in 1..Len(text) :
     /\ text[i] = "F"
     /\ BodyStart(text, i) # 0
     /\ \E q \in (BodyStart(text, i) + 1)..Len(text) : text[q] = "F"}

\* the fence the greedy [\s\S]* runs up to: the last one of the text
GroupEnd(text, p) ==
  CHOOSE q \in (p + 1)..Len(text) :
    /\ text[q] = "F"
    /\ \A r \in (q + 1)..Len(text) : text[r] # "F"

\* Method 1: re.search takes the leftmost match; group(1).strip()
FencedJson(text) ==
  LET i == CHOOSE i \in FenceMatches(text) : \A k \in FenceMatches(text) : i <= k
      p == BodyStart(text, i)
  IN Strip(SubSeq(text, p, GroupEnd(text, p) - 1))

\* Method 2, the loop from i with the running brace_count: the index where the
\* count returns to zero, 0 when the text ends first
RECURSIVE BraceScan(_, _, _)
BraceScan(text, i, brace_count) ==
  IF i > Len(text) THEN 0
  ELSE IF text[i] = "{" THEN BraceScan(text, i + 1, brace_count + 1)
  ELSE IF text[i] = "P" THEN
    IF brace_count = 0 THEN i ELSE BraceScan(text, i + 1, brace_count)
  ELSE IF text[i] = "}" THEN
    IF brace_count - 1 = 0 THEN i ELSE BraceScan(text, i + 1, brace_count - 1)
  ELSE BraceScan(text, i + 1, brace_count)

BracedJson(text) ==
  LET opens == {i \in 1..Len(text) : IsOpen(text[i])}
  IN IF opens = {} THEN Absent
     ELSE LET start_idx == CHOOSE i \in opens : \A k \in opens : i <= k
              end_idx == BraceScan(text, start_idx, 0)
          IN IF end_idx = 0 THEN Absent
             ELSE Some(SubSeq(text, start_idx, end_idx))

\* json_str, Absent for None
ExtractJson(text) ==
  IF FenceMatches(text) # {} THEN Some(FencedJson(text)) ELSE BracedJson(text)

\* json.loads with its failure swallowed: an unparsable text read as {}
ParseJsonLenient(s, object) ==
  IF Strip(s) = <<"P">> THEN [ok |-> TRUE, value |-> object]
  ELSE [ok |-> TRUE, value |-> EmptyObject]

\* json.loads on a lexeme string: whitespace around the value is skipped; the
\* serialised object parses to the object, an empty pair of braces to the
\* empty dict, anything else over these lexemes is no JSON
ParseJson(s, object) ==
  LET v == Strip(s)
  IN IF v = <<"P">> THEN [ok |-> TRUE, value |-> object]
     ELSE IF /\ Len(v) >= 2
             /\ v[1] = "{"
             /\ v[Len(v)] = "}"
             /\ \A k \in 2..(Len(v) - 1) : IsSpace(v[k])
       THEN [ok |-> TRUE, value |-> EmptyObject]
     ELSE [ok |-> FALSE, value |-> EmptyObject]

\* --------------------------------------------------------- reconciliation
\* req.get('pass', False)
ItemPass(req) == Get(req.pass, FALSE)

\* req.get('pass_status') == 'PARTIAL'
ItemPartial(req) == Get(req.pass_status, "None") = "PARTIAL"

\* the passed count without its pass_status test
ActualPassedAnyStatus(requirements) ==
  Cardinality({i \in DOMAIN requirements : ItemPass(requirements[i])})

ActualPassed(requirements) ==
  Cardinality({i \in DOMAIN requirements :
                 ItemPass(requirements[i]) /\ ~ItemPartial(requirements[i])})

ActualPartial(requirements) ==
  Cardinality({i \in DOMAIN requirements :
                 ItemPass(requirements[i]) /\ ItemPartial(requirements[i])})

ActualFailed(requirements) ==
  Cardinality({i \in DOMAIN requirements : ~ItemPass(requirements[i])})

ActualTotal(requirements) == Len(requirements)

ActualCounts(requirements) ==
  [totalChecks |-> ActualTotal(requirements),
   passed |-> ActualPassed(requirements),
   partial |-> ActualPartial(requirements),
   failed |-> ActualFailed(requirements)]

\* summary.get(<field>, 0) for the four fields
SummaryCounts(summary) ==
  [totalChecks |-> Get(summary.totalChecks, 0),
   passed |-> Get(summary.passed, 0),
   partial |-> Get(summary.partial, 0),
   failed |-> Get(summary.failed, 0)]

IsInconsistent(actual, reported) ==
  \/ actual.totalChecks # reported.totalChecks
  \/ actual.passed # reported.passed
  \/ actual.failed # reported.failed
  \/ actual.partial # reported.partial

\* the assignments with passed and partial crossed
CorrectSummaryCrossed(summary, actual) ==
  [summary EXCEPT !.totalChecks = Some(actual.totalChecks),
                  !.passed = Some(actual.partial),
                  !.partial = Some(actual.passed),
                  !.failed = Some(actual.failed)]

\* json_data['summary'][<field>] = actual_<field>, the four assignments
CorrectSummary(summary, actual) ==
  [summary EXCEPT !.totalChecks = Some(actual.totalChecks),
                  !.passed = Some(actual.passed),
                  !.partial = Some(actual.partial),
                  !.failed = Some(actual.failed)]

\* the precedence with the partial test ahead of the failed count
DetermineStatusPartialFirst(requirements, actual_failed) ==
  LET all_passed == \A i \in DOMAIN requirements : ItemPass(requirements[i])
      has_partial == \E i \in DOMAIN requirements : ItemPartial(requirements[i])
  IN IF all_passed /\ ~has_partial THEN "GREEN"
     ELSE IF has_partial THEN "YELLOW"
     ELSE "RED"

DetermineStatus(requirements, actual_failed) ==
  LET all_passed == \A i \in DOMAIN requirements : ItemPass(requirements[i])
      has_partial == \E i \in DOMAIN requirements : ItemPartial(requirements[i])
  IN IF all_passed /\ ~has_partial THEN "GREEN"
     ELSE IF has_partial /\ actual_failed = 0 THEN "YELLOW"
     ELSE "RED"

\* the correction that leaves the failed field as the model reported it
ReconcileKeepingFailed(object) ==
  LET requirements == Get(object.requirements, <<>>)
      actual == ActualCounts(requirements)
      summary == Get(object.summary, EmptySummary)
      inconsistent == IsInconsistent(actual, SummaryCounts(summary))
  IN IF inconsistent /\ object.summary = Absent
       THEN [error |-> "KeyError: 'summary'", json_data |-> object,
             actual |-> actual, inconsistent |-> TRUE, status |-> "none"]
       ELSE [error |-> "none",
             json_data |-> IF inconsistent
                             THEN [object EXCEPT !.summary =
                                     Some([CorrectSummary(summary, actual)
                                             EXCEPT !.failed = summary.failed])]
                             ELSE object,
             actual |-> actual, inconsistent |-> inconsistent,
             status |-> DetermineStatus(requirements, actual.failed)]

\* the verdict taken from the failed and partial counts the model reported
ReconcileBySummary(object) ==
  LET requirements == Get(object.requirements, <<>>)
      actual == ActualCounts(requirements)
      summary == Get(object.summary, EmptySummary)
      reported == SummaryCounts(summary)
      inconsistent == IsInconsistent(actual, reported)
  IN IF inconsistent /\ object.summary = Absent
       THEN [error |-> "KeyError: 'summary'", json_data |-> object,
             actual |-> actual, inconsistent |-> TRUE, status |-> "none"]
       ELSE [error |-> "none",
             json_data |-> IF inconsistent
                             THEN [object EXCEPT !.summary = Some(CorrectSummary(summary, actual))]
                             ELSE object,
             actual |-> actual, inconsistent |-> inconsistent,
             status |-> IF reported.failed > 0 THEN "RED"
                        ELSE IF reported.partial > 0 THEN "YELLOW"
                        ELSE "GREEN"]

\* the body of the try block after json.loads: counts, comparison, correction
\* and status.  json_data['summary'] of an object without that key raises
\* KeyError before anything is written.
Reconcile(object) ==
  LET requirements == Get(object.requirements, <<>>)
      actual == ActualCounts(requirements)
      summary == Get(object.summary, EmptySummary)
      inconsistent == IsInconsistent(actual, SummaryCounts(summary))
  IN IF inconsistent /\ object.summary = Absent
       THEN [error |-> "KeyError: 'summary'", json_data |-> object,
             actual |-> actual, inconsistent |-> TRUE, status |-> "none"]
       ELSE [error |-> "none",
             json_data |-> IF inconsistent
                             THEN [object EXCEPT !.summary = Some(CorrectSummary(summary, actual))]
                             ELSE object,
             actual |-> actual, inconsistent |-> inconsistent,
             status |-> DetermineStatus(requirements, actual.failed)]

\* -------------------------------------------------------------------- state
VARIABLES
  text,         \* text_content: the model's response text
  payload,      \* the JSON object the lexeme "P" serialises
  pc,           \* position of the request
  json_str,     \* evaluate_requirements: the extracted JSON text
  json_data,    \* evaluate_requirements: the parsed object, after correction
  actual,       \* evaluate_requirements: actual_total/passed/partial/failed
  inconsistent, \* evaluate_requirements: the flag of that name
  status,       \* evaluate_requirements: the verdict, "none" before
  error,        \* the exception raised, "none" when none
  page,         \* index: what render_template is given
  rerun,        \* the reconciliation step applied to json_data once more
  prev          \* the outcome of the previous request

\* extract_text_from_file and analyze_pdf_with_textract
VARIABLES
  filename,     \* the suffix of uploaded_file.filename
  reject_tables,           \* the argument of that name
  prefer_ocr,   \* use_textract_for_tables as the caller passed it
  pages,        \* the PDF: page.get_text() of each page
  content,      \* the text file: what f.read() gives
  xpc,          \* position of the extract_text_from_file call
  temp_file,    \* the file NamedTemporaryFile created: none, exists, removed
  temp_path,    \* whether temp_path has been assigned (None before)
  xerror,       \* the exception the call raised, "none" when none
  is_image_pdf, \* the local of that name
  use_textract_for_tables, \* the local of that name
  markdown_text,           \* the local of that name, before the character limit
  is_empty_text,           \* the local of that name
  has_html_tables,         \* the local of that name
  has_md_tables,           \* the local of that name
  calls,        \* the library and service calls made so far, in order
  failed,       \* the local extraction attempts that raised
  ocr_site,     \* which call of analyze_pdf_with_textract is running
  ocr_pc,       \* position inside analyze_pdf_with_textract
  job_status,   \* the JobStatus of the last poll
  s3_object,    \* the uploaded S3 object: none, stored, deleted
  status_message,          \* the StatusMessage of the last poll, Absent when none
  all_blocks,   \* the local of that name
  next_token,   \* the local of that name, Absent for None
  fetched,      \* the responses that carried result blocks, in order
  ocr_exception,           \* the message of the exception raised, Absent when none
  max_chars,    \* the local of that name
  result        \* the returned text, Absent before the return

evalvars ==
  <<text, payload, pc, json_str, json_data, actual, inconsistent, status,
    error, page, rerun, prev>>

xin == <<filename, reject_tables, prefer_ocr, pages, content>>

xscan == <<is_empty_text, has_html_tables, has_md_tables>>

xpages == <<status_message, all_blocks, next_token, fetched>>

xocr == <<ocr_site, ocr_pc, job_status, s3_object, xpages, ocr_exception>>

xvars ==
  <<xin, xpc, temp_file, temp_path, xerror, is_image_pdf,
    use_textract_for_tables, markdown_text, xscan, calls, failed, xocr,
    max_chars, result>>

\* the max_tokens computation of evaluate_requirements
VARIABLES
  input_bytes,  \* the local of that name
  configured_max_tokens,   \* the local of that name
  max_tokens    \* the local of that name, Absent before it is assigned

\* ensure_s3_bucket, called by several requests at once
VARIABLES
  textract_bucket_name,    \* the global of that name, Absent for None
  bucket,       \* the bucket at the storage service: absent, creating, exists
  bpc,          \* position of each call of ensure_s3_bucket
  bucket_name,  \* the local of that name of each call, Absent before
  error_code    \* the error code create_bucket gave each call, "none" when none

\* the staged objects of concurrent analyze_pdf_with_textract calls
VARIABLES
  kpc,          \* position of each call of analyze_pdf_with_textract
  file_name,    \* the local of that name of each call
  object_key,   \* the local of that name of each call, Absent before
  issued,       \* the values uuid.uuid4() has returned
  bucket_objects,          \* the objects of the bucket: key, and whose document
  job_input     \* the call whose document each call's job read, 0 before

\* convert_textract_to_markdown on one page
VARIABLES
  page_cells,   \* the cells of the tables of the page, in order
  page_lines,   \* page.lines
  gpc,          \* position of the conversion
  body,         \* the lines whose text was added as body text, by position
  folded        \* the lines whose words the table rows hold, by position

\* _html_table_to_md
VARIABLES
  table,        \* what pymupdf4llm.Table made of the fragment
  fpc,          \* position of the formatter
  rows          \* the local of that name: the joined rows

\* the policy handling of the index route
VARIABLES
  static_requirements,     \* what load_static_requirements returns
  policy_cache, \* policy.md of each session's cache directory, Absent when none
  uploaded,     \* the policy text each session uploaded last, Absent when none
  request       \* the last POST handled: its input and its outcome

tvars == <<input_bytes, configured_max_tokens, max_tokens>>

bvars == <<textract_bucket_name, bucket, bpc, bucket_name, error_code>>

kvars == <<kpc, file_name, object_key, issued, bucket_objects, job_input>>

gvars == <<page_cells, page_lines, gpc, body, folded>>

fvars == <<table, fpc, rows>>

pvars == <<static_requirements, policy_cache, uploaded, request>>

yvars == <<tvars, bvars, kvars, gvars, fvars, pvars>>

vars == <<evalvars, xvars, yvars>>

Callers == 1..MaxCallers

Sessions == 1..MaxSessions

\* no max_tokens is being computed
NoTokens ==
  /\ input_bytes = 0
  /\ configured_max_tokens = 0
  /\ max_tokens = Absent

\* no call of ensure_s3_bucket is running
NoBucket ==
  /\ textract_bucket_name = Absent
  /\ bucket = "absent"
  /\ bpc = [c \in Callers |-> "idle"]
  /\ bucket_name = [c \in Callers |-> Absent]
  /\ error_code = [c \in Callers |-> "none"]

\* no document is staged
NoKeys ==
  /\ kpc = [c \in Callers |-> "idle"]
  /\ file_name = [c \in Callers |-> "none"]
  /\ object_key = [c \in Callers |-> Absent]
  /\ issued = {}
  /\ bucket_objects = {}
  /\ job_input = [c \in Callers |-> 0]

\* no OCR response is being converted
NoGeometry ==
  /\ page_cells = <<>>
  /\ page_lines = <<>>
  /\ gpc = "idle"
  /\ body = <<>>
  /\ folded = <<>>

\* no HTML table is being formatted
NoTable ==
  /\ table = [headers |-> <<>>, columns |-> <<>>, rows |-> <<>>]
  /\ fpc = "idle"
  /\ rows = <<>>

\* no request has reached the policy handling
NoPolicy ==
  /\ static_requirements = Absent
  /\ policy_cache = [s \in Sessions |-> Absent]
  /\ uploaded = [s \in Sessions |-> Absent]
  /\ request = Absent

NoOther == NoTokens /\ NoBucket /\ NoKeys /\ NoGeometry /\ NoTable /\ NoPolicy

\* no document is being extracted
NoExtraction ==
  /\ filename = ".txt"
  /\ reject_tables = FALSE
  /\ prefer_ocr = FALSE
  /\ pages = <<>>
  /\ content = <<>>
  /\ xpc = "idle"
  /\ temp_file = "none"
  /\ temp_path = FALSE
  /\ xerror = "none"
  /\ is_image_pdf = FALSE
  /\ use_textract_for_tables = FALSE
  /\ markdown_text = <<>>
  /\ is_empty_text = FALSE
  /\ has_html_tables = FALSE
  /\ has_md_tables = FALSE
  /\ calls = <<>>
  /\ failed = {}
  /\ ocr_site = "none"
  /\ ocr_pc = "idle"
  /\ job_status = "none"
  /\ s3_object = "none"
  /\ status_message = Absent
  /\ all_blocks = <<>>
  /\ next_token = Absent
  /\ fetched = <<>>
  /\ ocr_exception = Absent
  /\ max_chars = 0
  /\ result = Absent

NoCounts == [totalChecks |-> 0, passed |-> 0, partial |-> 0, failed |-> 0]

\* the state of a request when evaluate_requirements is entered
Fresh ==
  /\ pc = "invoked"
  /\ json_str = Absent
  /\ json_data = Absent
  /\ actual = NoCounts
  /\ inconsistent = FALSE
  /\ status = "none"
  /\ error = "none"
  /\ page = Absent
  /\ rerun = Absent

\* no evaluation is running
NoEvaluation ==
  /\ text = <<>>
  /\ payload = EmptyObject
  /\ prev = "none"
  /\ Fresh

\* the usual shape of a response: the object in a fenced json block
FencedObjectText == <<"F", "j", "n", "P", "n", "F">>

\* the counts of an array, as a model that counted right reports them
CountedSummary(a) ==
  LET ok(i) == a[i].pass = Some(TRUE)
      part(i) == a[i].pass_status = Some("PARTIAL")
  IN [totalChecks |-> Some(Len(a)),
      passed |-> Some(Cardinality({i \in DOMAIN a : ok(i) /\ ~part(i)})),
      partial |-> Some(Cardinality({i \in DOMAIN a : ok(i) /\ part(i)})),
      failed |-> Some(Cardinality({i \in DOMAIN a : ~ok(i)}))]

CountedObjects ==
  {[requirements |-> Some(a), summary |-> Some(CountedSummary(a))] : a \in Arrays}

\* three items, one passed, one partial, one failed, reported as two passed
ScenarioObject ==
  [requirements |->
     Some(<<[pass |-> Some(TRUE), pass_status |-> Absent],
            [pass |-> Some(TRUE), pass_status |-> Some("PARTIAL")],
            [pass |-> Some(FALSE), pass_status |-> Absent]>>),
   summary |-> Some([totalChecks |-> Some(2), passed |-> Some(2),
                     partial |-> Some(0), failed |-> Some(0)])]

\* the two objects put inside every short response text
SampleObjects ==
  {[requirements |-> Some(<<[pass |-> Some(TRUE), pass_status |-> Some("FULL")]>>),
    summary |-> Some([totalChecks |-> Some(1), passed |-> Some(1),
                      partial |-> Some(0), failed |-> Some(0)])],
   [requirements |-> Some(<<[pass |-> Some(FALSE), pass_status |-> Absent]>>),
    summary |-> Some([totalChecks |-> Some(1), passed |-> Some(1),
                      partial |-> Absent, failed |-> Absent])]}

\* whether the text serialises an object at all
HasObject(t) == \E i \in 1..Len(t) : t[i] = "P"

\* the model is a black box: any object in the usual shape, or any short text
Init ==
  /\ \/ /\ text = FencedObjectText
        /\ payload \in JsonObjects \cup CountedObjects \cup {ScenarioObject}
     \/ /\ text \in TextsUpTo(MaxText)
        /\ payload \in IF HasObject(text) THEN SampleObjects ELSE {EmptyObject}
  /\ prev = "none"
  /\ Fresh
  /\ NoExtraction
  /\ NoOther

\* lines 697-737 and 807-809: the text of the response and its JSON part
Extract ==
  /\ pc = "invoked"
  /\ IF text = <<>>
       THEN /\ pc' = "raised"
            /\ error' = "ValueError: Response missing text content"
            /\ UNCHANGED json_str
       ELSE /\ json_str' = ExtractJson(text)
            /\ IF ExtractJson(text) = Absent
                 THEN /\ pc' = "raised"
                      /\ error' = "ValueError: Response does not contain required JSON structure"
                 ELSE /\ pc' = "extracted"
                      /\ UNCHANGED error
  /\ UNCHANGED <<text, payload, json_data, actual, inconsistent, status, page, rerun, prev>>
  /\ UNCHANGED <<xvars, yvars>>

\* lines 738-806: json.loads, the counts, the correction, the verdict, return
ParseAndReconcile ==
  /\ pc = "extracted"
  /\ LET parsed == ParseJson(json_str[1], payload)
         r == Reconcile(parsed.value)
     IN IF ~parsed.ok
          THEN /\ pc' = "raised"
               /\ error' = "ValueError: Invalid JSON in response"
               /\ UNCHANGED <<json_data, actual, inconsistent, status>>
          ELSE /\ json_data' = Some(r.json_data)
               /\ actual' = r.actual
               /\ inconsistent' = r.inconsistent
               /\ status' = r.status
               /\ error' = r.error
               /\ pc' = IF r.error = "none" THEN "returned" ELSE "raised"
  /\ UNCHANGED <<text, payload, json_str, page, rerun, prev>>
  /\ UNCHANGED <<xvars, yvars>>

\* index, lines 956-1043: json_output and json_parsed are extracted and parsed
\* again from raw_response, the warning is worded from the recomputed counts
Render ==
  /\ pc = "returned"
  /\ LET raw_response == text
         json_output == ExtractJson(raw_response)
         parsed == IF json_output = Absent
                     THEN [ok |-> FALSE, value |-> EmptyObject]
                     ELSE ParseJson(json_output[1], payload)
         requirements == Get(parsed.value.requirements, <<>>)
         counts == ActualCounts(requirements)
         summary == Get(parsed.value.summary, EmptySummary)
     IN page' = Some([result |-> status,
                      explanation |-> raw_response,
                      json_parsed |-> IF parsed.ok THEN Some(parsed.value) ELSE Absent,
                      inconsistent_warning |->
                        IF parsed.ok /\ IsInconsistent(counts, SummaryCounts(summary))
                          THEN Some(counts) ELSE Absent,
                      error |-> "none"])
  /\ pc' = "rendered"
  /\ UNCHANGED <<text, payload, json_str, json_data, actual, inconsistent, status,
                 error, rerun, prev>>
  /\ UNCHANGED <<xvars, yvars>>

\* index, lines 1045-1051: any exception ends in the error page
RenderError ==
  /\ pc = "raised"
  /\ page' = Some([result |-> "none",
                   explanation |-> <<>>,
                   json_parsed |-> Absent,
                   inconsistent_warning |-> Absent,
                   error |-> error])
  /\ pc' = "error_page"
  /\ UNCHANGED <<text, payload, json_str, json_data, actual, inconsistent, status,
                 error, rerun, prev>>
  /\ UNCHANGED <<xvars, yvars>>

\* the reconciliation step once more, on the object it has corrected
Rerun ==
  /\ pc = "rendered"
  /\ rerun = Absent
  /\ rerun' = Some(Reconcile(json_data[1]))
  /\ UNCHANGED <<text, payload, pc, json_str, json_data, actual, inconsistent,
                 status, error, page, prev>>
  /\ UNCHANGED <<xvars, yvars>>

\* the summaries that differ from s in one field
OneFieldEdits(s) ==
  {[s EXCEPT !.totalChecks = v] : v \in CountValues \ {s.totalChecks}}
    \cup {[s EXCEPT !.passed = v] : v \in CountValues \ {s.passed}}
    \cup {[s EXCEPT !.partial = v] : v \in CountValues \ {s.partial}}
    \cup {[s EXCEPT !.failed = v] : v \in CountValues \ {s.failed}}

\* the summaries another answer to the same documents may carry instead
OtherSummaries(summary) ==
  IF summary = Absent THEN {Some(EmptySummary)}
  ELSE {Some(s) : s \in OneFieldEdits(summary[1])}
         \cup (IF summary[1] = EmptySummary THEN {Absent} ELSE {})

\* index, line 956, in the next request: the model answers with the same
\* requirements array and another summary
Resubmit ==
  /\ pc \in {"returned", "raised"}
  /\ prev = "none"
  /\ HasObject(text)
  /\ \E s \in OtherSummaries(payload.summary) :
       payload' = [payload EXCEPT !.summary = s]
  /\ prev' = IF pc = "returned" THEN status ELSE "raised"
  /\ pc' = "invoked"
  /\ json_str' = Absent
  /\ json_data' = Absent
  /\ actual' = NoCounts
  /\ inconsistent' = FALSE
  /\ status' = "none"
  /\ error' = "none"
  /\ page' = Absent
  /\ rerun' = Absent
  /\ UNCHANGED text
  /\ UNCHANGED <<xvars, yvars>>

Next == Extract \/ ParseAndReconcile \/ Render \/ RenderError \/ Rerun

Spec == Init /\ [][Next]_vars

\* two answers to the same documents, one after the other
NextPair == Extract \/ ParseAndReconcile \/ Resubmit

SpecPair == Init /\ [][NextPair]_vars

\* ------------------------------------------------- extraction engine: data
\* A document text is a sequence of pieces, each a concrete piece of text:
\*   "a"  a letter of prose            " "  whitespace
\*   "<"  an opening tag <table ...>   ">"  a closing tag </table>
\*   "M"  a pipe-style table: a row, a newline and its |---|---| row
\*   "T"  the text _html_table_to_md returns for one fragment
\* Lengths and the character budget are counted in pieces.
DocPieces == {"a", " ", "<", ">", "M"}

\* what a library or the OCR service hands back, and what a text file holds
DocTexts == SeqsUpTo(DocPieces, MaxDoc)

\* page.get_text() of a page: nothing, whitespace, or some text
PageTexts == {<<>>, <<" ">>, <<"a">>}

Documents == SeqsUpTo(PageTexts, MaxPages)

\* validate_file_type admits these three, in either case
Suffixes == {".pdf", ".PDF", ".txt", ".md"}

\* str.lower() on a suffix
Lower(name) == IF name = ".PDF" THEN ".pdf" ELSE name

\* get_int_env('MAX_CHARS_PER_DOC', 0): any integer the environment holds
Budgets == (0 - 1)..MaxBudget

\* response['JobStatus']
JobStatuses == {"IN_PROGRESS", "SUCCEEDED", "FAILED", "PARTIAL_SUCCESS"}

\* the branch taken for every file, whatever its suffix
IsPdfAlways(name) == TRUE

\* filename.lower().endswith('.pdf')
IsPdf(name) == Lower(name) = ".pdf"

\* not text.strip(), len(text.strip()) == 0
IsBlank(t) == \A i \in DOMAIN t : t[i] = " "

\* lines 435-442: is_image_pdf stays True unless some page has text
IsImagePdf(doc) == \A p \in DOMAIN doc : IsBlank(doc[p])

\* no document taken to OCR before the local conversion has been tried
RouteAfterLocal(image, page_count) == FALSE

\* line 446: is_image_pdf and page_count > 0
RouteToOcr(image, page_count) == image /\ page_count > 0

\* re.search(r'<table\b[^>]*>.*?</table>', ..., DOTALL|IGNORECASE)
HasHtmlTables(t) ==
  \E i \in DOMAIN t : \E j \in DOMAIN t : i < j /\ t[i] = "<" /\ t[j] = ">"

\* re.search(r'\|.*\|.*\n\|[\s:|-]+\|', ...)
HasMdTables(t) == \E i \in DOMAIN t : t[i] = "M"

\* the decision with the OCR flag looked at before reject_tables
TableDecisionOcrFirst(empty, tables, reject, use) ==
  IF ~(empty \/ tables) THEN "keep"
  ELSE IF use THEN "ocr"
  ELSE IF reject /\ tables THEN "reject"
  ELSE "keep"

\* lines 504-518: what is done with the scanned text; use is
\* use_textract_for_tables after its automatic setting
TableDecision(empty, tables, reject, use) ==
  IF ~(empty \/ tables) THEN "keep"
  ELSE IF reject /\ tables THEN "reject"
  ELSE IF use THEN "ocr"
  ELSE "keep"

\* the fallback that goes from the first conversion straight to the raw text
FallbackSkippingDefault(attempt) == "raw"

\* lines 459-477: the attempt made when this one raised
FallbackAfter(attempt) ==
  IF attempt = "to_markdown_strict" THEN "to_markdown_default" ELSE "raw"

\* "\n---\n\n## Page n\n\n"
PageBreak == <<" ", "a", " ">>

\* lines 484-494: the text of page p after the up to three calls
RawPageText(doc, blocks, dict, p) ==
  IF ~IsBlank(doc[p]) THEN doc[p]
  ELSE IF ~IsBlank(blocks[p]) THEN blocks[p]
  ELSE dict[p]

\* lines 479-495: markdown_text after the first n pages
RECURSIVE RawText(_, _, _, _)
RawText(doc, blocks, dict, n) ==
  IF n = 0 THEN <<>>
  ELSE RawText(doc, blocks, dict, n - 1)
         \o (IF n > 1 THEN PageBreak ELSE <<>>)
         \o RawPageText(doc, blocks, dict, n)

\* lines 484-494: the calls made on the first n pages
RECURSIVE RawCalls(_, _, _)
RawCalls(doc, blocks, n) ==
  IF n = 0 THEN <<>>
  ELSE RawCalls(doc, blocks, n - 1)
         \o <<"raw_text">>
         \o (IF IsBlank(doc[n]) THEN <<"raw_blocks">> ELSE <<>>)
         \o (IF IsBlank(doc[n]) /\ IsBlank(blocks[n]) THEN <<"raw_dict">> ELSE <<>>)

\* re.sub with the same pattern: the leftmost opening tag that has a closing
\* tag after it is replaced up to the nearest closing tag, then the rest
RECURSIVE SubFrom(_, _)
SubFrom(t, i) ==
  IF i > Len(t) THEN <<>>
  ELSE IF t[i] = "<" /\ \E j \in (i + 1)..Len(t) : t[j] = ">"
    THEN LET j == CHOOSE j \in (i + 1)..Len(t) :
                    t[j] = ">" /\ \A k \in (i + 1)..(j - 1) : t[k] # ">"
         IN <<"T">> \o SubFrom(t, j + 1)
  ELSE <<t[i]>> \o SubFrom(t, i + 1)

SubTables(t) == SubFrom(t, 1)

\* the slice markdown_text[:max_chars] taken whatever max_chars is
SliceTo(t, limit) ==
  IF limit >= 0 THEN SubSeq(t, 1, IF limit < Len(t) THEN limit ELSE Len(t))
  ELSE SubSeq(t, 1, IF Len(t) + limit > 0 THEN Len(t) + limit ELSE 0)

\* lines 521-525 and 542-546
ApplyCharLimit(t, limit) ==
  IF limit > 0 /\ Len(t) > limit THEN SubSeq(t, 1, limit) ELSE t

\* whether the message of the error carries the filename (lines 454, 511)
ErrorNamesFile(e) == e \in {"textract", "tables"}

\* ---------------------------------------------- extraction engine: actions
\* the state when extract_text_from_file is entered
InitExtract ==
  /\ filename \in Suffixes
  /\ reject_tables \in BOOLEAN
  /\ prefer_ocr \in BOOLEAN
  /\ use_textract_for_tables = prefer_ocr
  /\ pages \in (IF IsPdf(filename) THEN Documents ELSE {<<>>})
  /\ content \in (IF IsPdf(filename) THEN {<<>>} ELSE DocTexts)
  /\ xpc = "start"
  /\ temp_file = "none"
  /\ temp_path = FALSE
  /\ xerror = "none"
  /\ is_image_pdf = FALSE
  /\ markdown_text = <<>>
  /\ is_empty_text = FALSE
  /\ has_html_tables = FALSE
  /\ has_md_tables = FALSE
  /\ calls = <<>>
  /\ failed = {}
  /\ ocr_site = "none"
  /\ ocr_pc = "idle"
  /\ job_status = "none"
  /\ s3_object = "none"
  /\ status_message = Absent
  /\ all_blocks = <<>>
  /\ next_token = Absent
  /\ fetched = <<>>
  /\ ocr_exception = Absent
  /\ max_chars = 0
  /\ result = Absent
  /\ text = <<>>
  /\ payload = EmptyObject
  /\ prev = "none"
  /\ Fresh
  /\ NoOther

\* lines 551-556: the exception leaves through except and finally; the file
\* is removed when temp_path is set and the file exists
Raise(e) ==
  /\ xerror' = e
  /\ xpc' = "raised"
  /\ temp_file' = IF temp_path /\ temp_file = "exists" THEN "removed" ELSE temp_file

\* lines 424-429: the temporary file is created, the upload saved into it,
\* and only then temp_path assigned
SaveUpload ==
  /\ xpc = "start"
  /\ temp_file' = "exists"
  /\ \/ /\ temp_path' = TRUE
        /\ xpc' = "saved"
        /\ UNCHANGED xerror
     \/ /\ xerror' = "save"
        /\ xpc' = "raised"
        /\ UNCHANGED temp_path
  /\ UNCHANGED <<evalvars, yvars, xin, is_image_pdf, use_textract_for_tables,
                 markdown_text, xscan, calls, failed, xocr, max_chars, result>>

\* lines 431-449: the text-layer test, and the call of
\* analyze_pdf_with_textract for an image-based document
DetectImagePdf ==
  /\ xpc = "saved"
  /\ IsPdf(filename)
  /\ \/ /\ Raise("open")
        /\ UNCHANGED <<is_image_pdf, calls, xocr>>
     \/ /\ is_image_pdf' = IsImagePdf(pages)
        /\ IF RouteToOcr(IsImagePdf(pages), Len(pages))
             THEN /\ calls' = calls \o <<"get_text", "textract">>
                  /\ xpc' = "ocr"
                  /\ ocr_site' = "direct"
                  /\ ocr_pc' = "upload"
                  /\ UNCHANGED <<job_status, s3_object, xpages, ocr_exception>>
             ELSE /\ calls' = Append(calls, "get_text")
                  /\ xpc' = "to_markdown_strict"
                  /\ UNCHANGED xocr
        /\ UNCHANGED <<xerror, temp_file>>
  /\ UNCHANGED <<evalvars, yvars, xin, temp_path, use_textract_for_tables,
                 markdown_text, xscan, failed, max_chars, result>>

\* lines 528-531: a file that is no PDF is opened as UTF-8 text and read
ReadTextFile ==
  /\ xpc = "saved"
  /\ ~IsPdf(filename)
  /\ \/ /\ Raise("read")
        /\ UNCHANGED markdown_text
     \/ /\ markdown_text' = content
        /\ xpc' = "substitute"
        /\ UNCHANGED <<xerror, temp_file>>
  /\ UNCHANGED <<evalvars, yvars, xin, temp_path, is_image_pdf, use_textract_for_tables,
                 xscan, calls, failed, xocr, max_chars, result>>

\* pymupdf4llm.to_markdown returns a text or raises; a document without
\* pages has nothing to convert
ToMarkdown(attempt) ==
  /\ xpc = attempt
  /\ calls' = Append(calls, attempt)
  /\ \/ /\ \E t \in (IF Len(pages) = 0 THEN {<<>>} ELSE DocTexts) :
             markdown_text' = t
        /\ xpc' = "scan"
        /\ UNCHANGED failed
     \/ /\ failed' = failed \cup {attempt}
        /\ xpc' = FallbackAfter(attempt)
        /\ UNCHANGED markdown_text
  /\ UNCHANGED <<evalvars, yvars, xin, temp_file, temp_path, xerror, is_image_pdf,
                 use_textract_for_tables, xscan, xocr, max_chars, result>>

\* lines 459-467: the conversion with table_strategy="lines_strict"
ToMarkdownStrict == ToMarkdown("to_markdown_strict")

\* lines 468-475: the conversion with the default strategy
ToMarkdownDefault == ToMarkdown("to_markdown_default")

\* lines 476-496: the pages read one by one, each by up to three calls
RawFallback ==
  /\ xpc = "raw"
  /\ \/ /\ Raise("extract")
        /\ failed' = failed \cup {"raw"}
        /\ calls' = Append(calls, "raw")
        /\ UNCHANGED markdown_text
     \/ /\ \E blocks \in [DOMAIN pages -> PageTexts] :
             \E dict \in [DOMAIN pages -> PageTexts] :
               /\ markdown_text' = RawText(pages, blocks, dict, Len(pages))
               /\ calls' = calls \o <<"raw">> \o RawCalls(pages, blocks, Len(pages))
        /\ xpc' = "scan"
        /\ UNCHANGED <<failed, xerror, temp_file>>
  /\ UNCHANGED <<evalvars, yvars, xin, temp_path, is_image_pdf, use_textract_for_tables,
                 xscan, xocr, max_chars, result>>

\* lines 498-516: the scan for empty text and tables, the automatic OCR flag,
\* the rejection, and the call of analyze_pdf_with_textract
ScanTables ==
  /\ xpc = "scan"
  /\ LET empty == IsBlank(markdown_text)
         html == HasHtmlTables(markdown_text)
         md == HasMdTables(markdown_text)
         use == use_textract_for_tables \/ empty
         decision == TableDecision(empty, html \/ md, reject_tables, use)
     IN /\ is_empty_text' = empty
        /\ has_html_tables' = html
        /\ has_md_tables' = md
        /\ use_textract_for_tables' = use
        /\ calls' = calls \o <<"table_scan">>
                      \o (IF decision = "ocr" THEN <<"textract">> ELSE <<>>)
        /\ IF decision = "reject"
             THEN /\ Raise("tables")
                  /\ UNCHANGED xocr
           ELSE IF decision = "ocr"
             THEN /\ xpc' = "ocr"
                  /\ ocr_site' = "tables"
                  /\ ocr_pc' = "upload"
                  /\ UNCHANGED <<job_status, s3_object, xpages, ocr_exception,
                                 xerror, temp_file>>
           ELSE /\ xpc' = "substitute"
                /\ UNCHANGED <<xocr, xerror, temp_file>>
  /\ UNCHANGED <<evalvars, yvars, xin, temp_path, is_image_pdf, markdown_text, failed,
                 max_chars, result>>

\* an exception out of analyze_pdf_with_textract or convert_textract_to_markdown:
\* lines 452-454 word it with the filename, line 516 lets it pass to line 551
OcrRaise(message) ==
  /\ Raise(IF ocr_site = "direct" THEN "textract" ELSE "ocr")
  /\ ocr_pc' = "idle"
  /\ ocr_exception' = Some(message)

\* line 330: the message of the exception for a FAILED job
FailureMessage(message) ==
  <<"Textract job failed: ", Get(message, "Unknown error")>>

\* the message of an exception a collaborator raised
ClientError == <<"ClientError">>

\* the block lists one response can carry
BlockLists == {<<>>, <<"PAGE", "LINE">>, <<"WORD">>}

\* the responses of get_document_analysis for a SUCCEEDED job, when `sent`
\* pages were sent before: Blocks, and a NextToken unless the page is the last
ResultPages(sent) ==
  [Blocks : BlockLists,
   NextToken : IF sent + 1 < MaxResultPages THEN {Absent, Some("token")}
                                            ELSE {Absent}]

\* the pagination order reversed
PrependBlocks(blocks, more) == more \o blocks

\* line 343: all_blocks.extend(response['Blocks'])
ExtendBlocks(blocks, more) == blocks \o more

\* lines 298-311: the bucket, the textract folder, the upload
OcrUpload ==
  /\ xpc = "ocr"
  /\ ocr_pc = "upload"
  /\ \/ /\ s3_object' = "stored"
        /\ ocr_pc' = "start"
        /\ UNCHANGED <<xpc, xerror, temp_file, ocr_exception>>
     \/ /\ OcrRaise(ClientError)
        /\ UNCHANGED s3_object
  /\ UNCHANGED <<evalvars, yvars, xin, temp_path, is_image_pdf, use_textract_for_tables,
                 markdown_text, xscan, calls, failed, ocr_site, job_status,
                 xpages, max_chars, result>>

\* lines 313-320, 356-361: start_document_analysis; the finally clause deletes
\* the object (a delete that fails is logged and left to the shutdown clean-up)
OcrStart ==
  /\ xpc = "ocr"
  /\ ocr_pc = "start"
  /\ \/ /\ ocr_pc' = "poll"
        /\ UNCHANGED <<xpc, xerror, temp_file, s3_object, ocr_exception>>
     \/ /\ OcrRaise(ClientError)
        /\ s3_object' = "deleted"
  /\ UNCHANGED <<evalvars, yvars, xin, temp_path, is_image_pdf, use_textract_for_tables,
                 markdown_text, xscan, calls, failed, ocr_site, job_status,
                 xpages, max_chars, result>>

\* lines 324-331 and 335-337: one get_document_analysis and the test of its
\* JobStatus; the SUCCEEDED response is the first result page
OcrPoll ==
  /\ xpc = "ocr"
  /\ ocr_pc = "poll"
  /\ \/ \E s \in JobStatuses :
          /\ job_status' = s
          /\ IF s = "SUCCEEDED"
               THEN /\ \E response \in ResultPages(0) :
                         /\ all_blocks' = response.Blocks
                         /\ next_token' = response.NextToken
                         /\ fetched' = <<response>>
                    /\ status_message' = Absent
                    /\ ocr_pc' = "collect"
                    /\ UNCHANGED <<xpc, xerror, temp_file, s3_object,
                                   ocr_exception>>
             ELSE IF s = "FAILED"
               THEN /\ \E message \in {Absent, Some("message")} :
                         /\ status_message' = message
                         /\ OcrRaise(FailureMessage(message))
                    /\ s3_object' = "deleted"
                    /\ UNCHANGED <<all_blocks, next_token, fetched>>
             ELSE /\ ocr_pc' = "sleep"
                  /\ status_message' = Absent
                  /\ UNCHANGED <<xpc, xerror, temp_file, s3_object, all_blocks,
                                 next_token, fetched, ocr_exception>>
     \/ /\ OcrRaise(ClientError)
        /\ s3_object' = "deleted"
        /\ UNCHANGED <<job_status, xpages>>
  /\ UNCHANGED <<evalvars, yvars, xin, temp_path, is_image_pdf, use_textract_for_tables,
                 markdown_text, xscan, calls, failed, ocr_site, max_chars, result>>

\* line 333: time.sleep(5), then the next turn of while True
OcrSleep ==
  /\ xpc = "ocr"
  /\ ocr_pc = "sleep"
  /\ ocr_pc' = "poll"
  /\ UNCHANGED <<evalvars, yvars, xin, xpc, temp_file, temp_path, xerror, is_image_pdf,
                 use_textract_for_tables, markdown_text, xscan, calls, failed,
                 ocr_site, job_status, s3_object, xpages, ocr_exception,
                 max_chars, result>>

\* lines 338-344: one turn of while next_token
OcrNextPage ==
  /\ xpc = "ocr"
  /\ ocr_pc = "collect"
  /\ next_token # Absent
  /\ \/ /\ \E response \in ResultPages(Len(fetched)) :
             /\ all_blocks' = ExtendBlocks(all_blocks, response.Blocks)
             /\ next_token' = response.NextToken
             /\ fetched' = Append(fetched, response)
        /\ UNCHANGED <<xpc, xerror, temp_file, s3_object, ocr_pc, ocr_exception>>
     \/ /\ OcrRaise(ClientError)
        /\ s3_object' = "deleted"
        /\ UNCHANGED <<all_blocks, next_token, fetched>>
  /\ UNCHANGED <<evalvars, yvars, xin, temp_path, is_image_pdf, use_textract_for_tables,
                 markdown_text, xscan, calls, failed, ocr_site, job_status,
                 status_message, max_chars, result>>

\* lines 346-361: the blocks are saved and returned, and the finally clause
\* deletes the object
OcrCollect ==
  /\ xpc = "ocr"
  /\ ocr_pc = "collect"
  /\ next_token = Absent
  /\ s3_object' = "deleted"
  /\ all_blocks' = <<>>
  /\ fetched' = <<>>
  /\ \/ /\ ocr_pc' = "convert"
        /\ UNCHANGED <<xpc, xerror, temp_file, ocr_exception>>
     \/ OcrRaise(ClientError)
  /\ UNCHANGED <<evalvars, yvars, xin, temp_path, is_image_pdf,
                 use_textract_for_tables, markdown_text, xscan, calls, failed,
                 ocr_site, job_status, status_message, next_token, max_chars,
                 result>>

\* the message of an exception of the response parser
ParseError == <<"KeyError">>

\* line 450 or 517: convert_textract_to_markdown gives markdown_text
OcrConvert ==
  /\ xpc = "ocr"
  /\ ocr_pc = "convert"
  /\ \/ /\ \E t \in DocTexts : markdown_text' = t
        /\ ocr_pc' = "idle"
        /\ xpc' = IF ocr_site = "direct" THEN "scan" ELSE "limit_ocr"
        /\ UNCHANGED <<xerror, temp_file, ocr_exception>>
     \/ /\ OcrRaise(ParseError)
        /\ UNCHANGED markdown_text
  /\ UNCHANGED <<evalvars, yvars, xin, temp_path, is_image_pdf,
                 use_textract_for_tables, xscan, calls, failed, ocr_site,
                 job_status, s3_object, xpages, max_chars, result>>

\* lines 520-527 and 554-556: the character limit and the return of the OCR
\* branch
ReturnOcr ==
  /\ xpc = "limit_ocr"
  /\ \E limit \in Budgets :
       /\ max_chars' = limit
       /\ result' = Some(ApplyCharLimit(markdown_text, limit))
  /\ xpc' = "returned"
  /\ temp_file' = IF temp_path /\ temp_file = "exists" THEN "removed" ELSE temp_file
  /\ UNCHANGED <<evalvars, yvars, xin, temp_path, xerror, is_image_pdf,
                 use_textract_for_tables, markdown_text, xscan, calls, failed,
                 xocr, max_chars>>

\* lines 533-539: re.sub with _html_table_to_md; the formatter is called once
\* per fragment and returns its table or raises
Substitute ==
  /\ xpc = "substitute"
  /\ calls' = Append(calls, "re_sub")
  /\ \/ /\ markdown_text' = SubTables(markdown_text)
        /\ xpc' = "limit"
        /\ UNCHANGED <<xerror, temp_file>>
     \/ /\ HasHtmlTables(markdown_text)
        /\ Raise("format")
        /\ UNCHANGED markdown_text
  /\ UNCHANGED <<evalvars, yvars, xin, temp_path, is_image_pdf, use_textract_for_tables,
                 xscan, failed, xocr, max_chars, result>>

\* lines 541-549 and 554-556: the character limit and the return
ReturnText ==
  /\ xpc = "limit"
  /\ \E limit \in Budgets :
       /\ max_chars' = limit
       /\ result' = Some(ApplyCharLimit(markdown_text, limit))
  /\ xpc' = "returned"
  /\ temp_file' = IF temp_path /\ temp_file = "exists" THEN "removed" ELSE temp_file
  /\ UNCHANGED <<evalvars, yvars, xin, temp_path, xerror, is_image_pdf,
                 use_textract_for_tables, markdown_text, xscan, calls, failed,
                 xocr>>

NextOcr ==
  \/ OcrUpload
  \/ OcrStart
  \/ OcrPoll
  \/ OcrSleep
  \/ OcrNextPage
  \/ OcrCollect
  \/ OcrConvert

NextExtract ==
  \/ SaveUpload
  \/ DetectImagePdf
  \/ ReadTextFile
  \/ ToMarkdownStrict
  \/ ToMarkdownDefault
  \/ RawFallback
  \/ ScanTables
  \/ NextOcr
  \/ ReturnOcr
  \/ Substitute
  \/ ReturnText

SpecExtract == InitExtract /\ [][NextExtract]_vars

\* the state when analyze_pdf_with_textract is entered from line 449: the
\* upload is saved and every page of the PDF has a blank text layer
InitOcr ==
  /\ filename \in {".pdf", ".PDF"}
  /\ reject_tables \in BOOLEAN
  /\ prefer_ocr \in BOOLEAN
  /\ use_textract_for_tables = prefer_ocr
  /\ pages \in {doc \in Documents : Len(doc) > 0 /\ IsImagePdf(doc)}
  /\ content = <<>>
  /\ xpc = "ocr"
  /\ temp_file = "exists"
  /\ temp_path = TRUE
  /\ xerror = "none"
  /\ is_image_pdf = TRUE
  /\ markdown_text = <<>>
  /\ is_empty_text = FALSE
  /\ has_html_tables = FALSE
  /\ has_md_tables = FALSE
  /\ calls = <<"get_text", "textract">>
  /\ failed = {}
  /\ ocr_site = "direct"
  /\ ocr_pc = "upload"
  /\ job_status = "none"
  /\ s3_object = "none"
  /\ status_message = Absent
  /\ all_blocks = <<>>
  /\ next_token = Absent
  /\ fetched = <<>>
  /\ ocr_exception = Absent
  /\ max_chars = 0
  /\ result = Absent
  /\ text = <<>>
  /\ payload = EmptyObject
  /\ prev = "none"
  /\ Fresh
  /\ NoOther

\* the call of analyze_pdf_with_textract on its own; the request thread keeps
\* running, so a step that can be taken is taken
SpecOcr == InitOcr /\ [][NextOcr]_vars /\ WF_vars(NextOcr)

\* ------------------------------------------------- the legacy word answer
VerdictWords == {"GREEN", "YELLOW", "ORANGE", "RED"}

\* short responses made of verdict words, prose, newlines and the object
WordTokens == VerdictWords \cup {"t", "n", "P"}

InitWord ==
  /\ text \in SeqsUpTo(WordTokens, MaxWords)
  /\ payload \in IF HasObject(text) THEN SampleObjects ELSE {EmptyObject}
  /\ prev = "none"
  /\ Fresh
  /\ NoExtraction
  /\ NoOther

SpecWord == InitWord /\ [][Next]_vars

\* --------------------------------------------------------------- max_tokens
\* line 659: the minimum of max_tokens
MinTokens == 5000

\* byte lengths of the prompt, around the length whose two thirds are MinTokens
ByteLengths == {0, 1, 2, 7499, 7500, 7501, 7502, 7503, 7504, 9000, 9001}

\* what get_int_env('MAX_TOKENS', 0) returns: the default 0, or the integer set
ConfiguredValues == {0 - 1, 0, 1, 4999, 5000, 5001, 5002, 6000, 6001}

Max(a, b) == IF a >= b THEN a ELSE b

\* line 649
CalculatedMaxTokens(bytes) == (bytes * 2) \div 3

\* lines 652-659
MaxTokens(bytes, configured) ==
  LET calculated == CalculatedMaxTokens(bytes)
  IN Max(MinTokens, IF configured > 0 THEN Max(configured, calculated)
                                      ELSE calculated)

\* the state at line 648: the prompt is built, MAX_TOKENS is set or not
InitTokens ==
  /\ input_bytes \in ByteLengths
  /\ configured_max_tokens \in ConfiguredValues
  /\ max_tokens = Absent
  /\ NoEvaluation
  /\ NoExtraction
  /\ NoBucket /\ NoKeys /\ NoGeometry /\ NoTable /\ NoPolicy

\* lines 648-659
ComputeMaxTokens ==
  /\ max_tokens = Absent
  /\ max_tokens' = Some(MaxTokens(input_bytes, configured_max_tokens))
  /\ UNCHANGED <<evalvars, xvars, input_bytes, configured_max_tokens, bvars,
                 kvars, gvars, fvars, pvars>>

NextTokens == ComputeMaxTokens

SpecTokens == InitTokens /\ [][NextTokens]_vars

\* ---------------------------------------------------------- ensure_s3_bucket
\* line 142: the name is made of the application name, the account and the
\* region, the same for every caller
BucketName == <<"spectater", "-textract-", "account", "-", "region">>

\* the error codes of create_bucket that line 170 lists, and one other
RaceCodes == {"BucketAlreadyOwnedByYou", "OperationAborted", "BucketAlreadyExists"}

OtherCodes == {"AccessDenied"}

\* only the code of a bucket that was there before
ToleratedIfOwned(code) == code = "BucketAlreadyOwnedByYou"

\* line 170
Tolerated(code) == code \in RaceCodes

\* the codes create_bucket can give: the name is taken by another account,
\* another creation is in progress, the caller has the bucket already (outside
\* us-east-1), or the request is refused
CreateErrors(state) ==
  OtherCodes \cup
    (CASE state = "foreign" -> {"BucketAlreadyExists"}
       [] state = "creating" -> {"OperationAborted"}
       [] state = "exists" -> {"BucketAlreadyOwnedByYou"}
       [] OTHER -> {})

\* several requests enter ensure_s3_bucket; the bucket is absent, there, or
\* its name taken by another account
InitBucket ==
  /\ textract_bucket_name = Absent
  /\ bucket \in {"absent", "exists", "foreign"}
  /\ bpc = [c \in Callers |-> "name"]
  /\ bucket_name = [c \in Callers |-> Absent]
  /\ error_code = [c \in Callers |-> "none"]
  /\ NoEvaluation
  /\ NoExtraction
  /\ NoTokens /\ NoKeys /\ NoGeometry /\ NoTable /\ NoPolicy

\* lines 134-143 and 147: the global is set by the first caller that finds it
\* None; get_caller_identity can raise
GetBucketName(c) ==
  /\ bpc[c] = "name"
  /\ \/ /\ textract_bucket_name' =
             IF textract_bucket_name = Absent THEN Some(BucketName)
                                              ELSE textract_bucket_name
        /\ bucket_name' = [bucket_name EXCEPT ![c] = textract_bucket_name']
        /\ bpc' = [bpc EXCEPT ![c] = "head"]
     \/ /\ textract_bucket_name = Absent
        /\ bpc' = [bpc EXCEPT ![c] = "raised"]
        /\ UNCHANGED <<textract_bucket_name, bucket_name>>
  /\ UNCHANGED <<evalvars, xvars, tvars, bucket, error_code, kvars, gvars,
                 fvars, pvars>>

\* lines 150-153: head_bucket finds the caller's bucket, or raises ClientError
HeadBucket(c) ==
  /\ bpc[c] = "head"
  /\ \/ /\ bucket = "exists"
        /\ bpc' = [bpc EXCEPT ![c] = "returned"]
     \/ bpc' = [bpc EXCEPT ![c] = "create"]
  /\ UNCHANGED <<evalvars, xvars, tvars, textract_bucket_name, bucket,
                 bucket_name, error_code, kvars, gvars, fvars, pvars>>

\* lines 155-181: create_bucket is accepted, or answers with an error code
CreateBucket(c) ==
  /\ bpc[c] = "create"
  /\ \/ /\ bucket = "absent"
        /\ bucket' = "creating"
        /\ bpc' = [bpc EXCEPT ![c] = "creating"]
        /\ UNCHANGED error_code
     \/ /\ bucket = "exists"
        /\ bpc' = [bpc EXCEPT ![c] = "returned"]
        /\ UNCHANGED <<bucket, error_code>>
     \/ \E code \in CreateErrors(bucket) :
          /\ error_code' = [error_code EXCEPT ![c] = code]
          /\ bpc' = [bpc EXCEPT ![c] = IF Tolerated(code) THEN "recheck"
                                                            ELSE "raised"]
          /\ UNCHANGED bucket
  /\ UNCHANGED <<evalvars, xvars, tvars, textract_bucket_name, bucket_name,
                 kvars, gvars, fvars, pvars>>

\* lines 160-166: the creation that was accepted ends
CreateDone(c) ==
  /\ bpc[c] = "creating"
  /\ bucket' = "exists"
  /\ bpc' = [bpc EXCEPT ![c] = "returned"]
  /\ UNCHANGED <<evalvars, xvars, tvars, textract_bucket_name, bucket_name,
                 error_code, kvars, gvars, fvars, pvars>>

\* lines 171-179: the sleep and the second head_bucket, whose failure is logged
Recheck(c) ==
  /\ bpc[c] = "recheck"
  /\ bpc' = [bpc EXCEPT ![c] = "returned"]
  /\ UNCHANGED <<evalvars, xvars, tvars, textract_bucket_name, bucket,
                 bucket_name, error_code, kvars, gvars, fvars, pvars>>

NextBucket ==
  \/ \E c \in Callers : GetBucketName(c)
  \/ \E c \in Callers : HeadBucket(c)
  \/ \E c \in Callers : CreateBucket(c)
  \/ \E c \in Callers : CreateDone(c)
  \/ \E c \in Callers : Recheck(c)

SpecBucket == InitBucket /\ [][NextBucket]_vars

\* ------------------------------------------------------- the staged objects
\* the names of the files the calls are given
FileNames == {"a.pdf", "b.pdf"}

\* the values uuid.uuid4() can return: random 122-bit values, none returned
\* twice
Uuids == 1..MaxCallers

\* the key made of the file name alone
KeyOfName(uuid, name) == <<"documents/", name>>

\* line 308
ObjectKey(uuid, name) == <<"documents/", uuid, "/", name>>

\* upload_file: the object of that key is written, replacing one that is there
PutObject(objects, key, doc) ==
  {o \in objects : o.Key # key} \cup {[Key |-> key, Doc |-> doc]}

\* delete_object
DeleteObject(objects, key) == {o \in objects : o.Key # key}

\* the document the service reads at the key, 0 when there is no object
ReadObject(objects, key) ==
  IF \E o \in objects : o.Key = key
    THEN (CHOOSE o \in objects : o.Key = key).Doc
    ELSE 0

\* several requests enter analyze_pdf_with_textract, the bucket is there
InitKeys ==
  /\ kpc = [c \in Callers |-> "start"]
  /\ file_name \in [Callers -> FileNames]
  /\ object_key = [c \in Callers |-> Absent]
  /\ issued = {}
  /\ bucket_objects = {}
  /\ job_input = [c \in Callers |-> 0]
  /\ NoEvaluation
  /\ NoExtraction
  /\ NoTokens /\ NoBucket /\ NoGeometry /\ NoTable /\ NoPolicy

\* lines 307-311: the key is made and the document of call c uploaded; an
\* upload that raises leaves the call before the try statement
Stage(c) ==
  /\ kpc[c] = "start"
  /\ \E uuid \in Uuids \ issued :
       LET key == ObjectKey(uuid, file_name[c])
       IN /\ issued' = issued \cup {uuid}
          /\ object_key' = [object_key EXCEPT ![c] = Some(key)]
          /\ \/ /\ bucket_objects' = PutObject(bucket_objects, key, c)
                /\ kpc' = [kpc EXCEPT ![c] = "staged"]
             \/ /\ kpc' = [kpc EXCEPT ![c] = "raised"]
                /\ UNCHANGED bucket_objects
  /\ UNCHANGED <<evalvars, xvars, tvars, bvars, file_name, job_input, gvars,
                 fvars, pvars>>

\* lines 316-320: start_document_analysis names the object of the call
StartJob(c) ==
  /\ kpc[c] = "staged"
  /\ kpc' = [kpc EXCEPT ![c] = "started"]
  /\ UNCHANGED <<evalvars, xvars, tvars, bvars, file_name, object_key, issued,
                 bucket_objects, job_input, gvars, fvars, pvars>>

\* the job reads the object named at its start, while the call polls
ReadDocument(c) ==
  /\ kpc[c] = "started"
  /\ job_input' = [job_input EXCEPT ![c] = ReadObject(bucket_objects, object_key[c][1])]
  /\ kpc' = [kpc EXCEPT ![c] = "read"]
  /\ UNCHANGED <<evalvars, xvars, tvars, bvars, file_name, object_key, issued,
                 bucket_objects, gvars, fvars, pvars>>

\* lines 356-361: the finally clause deletes the object of the call's key,
\* after the job has ended or an exception was raised; a delete that fails is
\* logged
Cleanup(c) ==
  /\ kpc[c] \in {"staged", "started", "read"}
  /\ \/ bucket_objects' = DeleteObject(bucket_objects, object_key[c][1])
     \/ UNCHANGED bucket_objects
  /\ kpc' = [kpc EXCEPT ![c] = IF kpc[c] = "read" THEN "done" ELSE "raised"]
  /\ UNCHANGED <<evalvars, xvars, tvars, bvars, file_name, object_key, issued,
                 job_input, gvars, fvars, pvars>>

NextKeys ==
  \/ \E c \in Callers : Stage(c)
  \/ \E c \in Callers : StartJob(c)
  \/ \E c \in Callers : ReadDocument(c)
  \/ \E c \in Callers : Cleanup(c)

SpecKeys == InitKeys /\ [][NextKeys]_vars

\* ------------------------------------------ convert_textract_to_markdown
\* Coordinates are held in thirds of a ten-thousandth of the page, so that
\* round(x, 4) moves a value and never meets a tie; Round4 gives ten-thousandths.
Round4(x) == (x + 1) \div 3

Box(top, left, width, height) ==
  [top |-> top, left |-> left, width |-> width, height |-> height]

\* two cells side by side in one row, sharing an edge
CellBoxes == {Box(3, 3, 6, 3), Box(3, 9, 6, 3)}

\* lines inside the row of cells, just below it, and well below it; left of the
\* cells and inside them; short and long
LineBoxes ==
  {Box(top, left, width, 1) : top \in {4, 7, 12}, left \in {0, 4}, width \in {3, 12}}

\* whether two boxes share more than an edge
Overlaps(a, b) ==
  /\ a.left < b.left + b.width
  /\ b.left < a.left + a.width
  /\ a.top < b.top + b.height
  /\ b.top < a.top + a.height

\* the lines a page with these cells can have: the words of a line are the
\* words of one cell (cell is its position among the cells), which the line
\* then overlaps, or of no cell (cell is 0)
LinesOf(cells) ==
  {l \in [box : LineBoxes, cell : 0..Len(cells)] :
     l.cell # 0 => Overlaps(l.box, cells[l.cell])}

\* lines 378-379 and 386-387: the key of a bounding box
PosKey(box) ==
  <<Round4(box.top), Round4(box.left), Round4(box.width), Round4(box.height)>>

\* lines 373-380
TablePositions(cells) == {PosKey(cells[k]) : k \in DOMAIN cells}

\* the test with the line's whole box
BoxInTable(line_key, table_positions) ==
  \E table_pos \in table_positions :
    /\ table_pos[1] <= line_key[1]
    /\ line_key[1] + line_key[4] <= table_pos[1] + table_pos[4]
    /\ table_pos[2] <= line_key[2]
    /\ line_key[2] + line_key[3] <= table_pos[2] + table_pos[3]

\* lines 389-396
InTable(line_key, table_positions) ==
  \E table_pos \in table_positions :
    /\ table_pos[1] <= line_key[1]
    /\ line_key[1] <= table_pos[1] + table_pos[4]
    /\ table_pos[2] <= line_key[2]
    /\ line_key[2] <= table_pos[2] + table_pos[3]

\* lines 383-398: the lines whose text is added, from line i on
RECURSIVE BodyLines(_, _, _)
BodyLines(lines, table_positions, i) ==
  IF i > Len(lines) THEN <<>>
  ELSE (IF InTable(PosKey(lines[i].box), table_positions) THEN <<>> ELSE <<i>>)
         \o BodyLines(lines, table_positions, i + 1)

\* the lines whose words are the words of cell k
RECURSIVE LinesInCell(_, _, _)
LinesInCell(lines, k, i) ==
  IF i > Len(lines) THEN <<>>
  ELSE (IF lines[i].cell = k THEN <<i>> ELSE <<>>) \o LinesInCell(lines, k, i + 1)

\* lines 401-418: the rows hold cell.text of every cell in order, from cell k on
RECURSIVE TableLines(_, _, _)
TableLines(lines, cells, k) ==
  IF k > Len(cells) THEN <<>>
  ELSE LinesInCell(lines, k, 1) \o TableLines(lines, cells, k + 1)

\* one page of an OCR response enters the conversion
InitGeometry ==
  /\ page_cells \in SeqsUpTo(CellBoxes, MaxCells)
  /\ page_lines \in SeqsUpTo(LinesOf(page_cells), MaxLines)
  /\ gpc = "start"
  /\ body = <<>>
  /\ folded = <<>>
  /\ NoEvaluation
  /\ NoExtraction
  /\ NoTokens /\ NoBucket /\ NoKeys /\ NoTable /\ NoPolicy

\* lines 368-420 for the page
ConvertPage ==
  /\ gpc = "start"
  /\ body' = BodyLines(page_lines, TablePositions(page_cells), 1)
  /\ folded' = TableLines(page_lines, page_cells, 1)
  /\ gpc' = "done"
  /\ UNCHANGED <<evalvars, xvars, tvars, bvars, kvars, page_cells, page_lines,
                 fvars, pvars>>

NextGeometry == ConvertPage

SpecGeometry == InitGeometry /\ [][NextGeometry]_vars

\* --------------------------------------------------------- _html_table_to_md
\* the texts of header cells and of data cells, as sequences of pieces: a
\* word, a newline, a pipe
HeaderTexts == {<<"h">>}

CellTexts == {<<"a">>, <<"a", "\n", "b">>, <<"|">>}

Alignments == {"LEFT", "CENTER", "RIGHT"}

\* what pymupdf4llm.Table gives for a fragment: the header cells, the columns
\* with their alignment, and the data rows, each with the cells it has
Tables ==
  [headers : UNION {[1..n -> HeaderTexts] : n \in 1..MaxCols},
   columns : SeqsUpTo(Alignments, MaxCols),
   rows : SeqsUpTo(SeqsUpTo(CellTexts, MaxCols), MaxRows)]

\* str.replace('\n', ' ')
RECURSIVE ReplaceNewlines(_)
ReplaceNewlines(t) ==
  IF t = <<>> THEN <<>>
  ELSE <<IF Head(t) = "\n" THEN " " ELSE Head(t)>> \o ReplaceNewlines(Tail(t))

\* "|".join(parts)
RECURSIVE JoinPipe(_)
JoinPipe(parts) ==
  IF parts = <<>> THEN <<>>
  ELSE IF Len(parts) = 1 THEN parts[1]
  ELSE parts[1] \o <<"|">> \o JoinPipe(Tail(parts))

\* lines 283-286: the marker of an alignment
Marker(alignment) ==
  IF alignment = "CENTER" THEN <<":---:">>
  ELSE IF alignment = "RIGHT" THEN <<"---:">>
  ELSE <<"---">>

\* lines 281-286: one marker for each header, set by the columns
AlignmentRow(t) ==
  [i \in 1..Len(t.headers) |->
     IF i <= Len(t.columns) THEN Marker(t.columns[i]) ELSE <<"---">>]

\* lines 291-292: the joined data rows
DataRows(t) ==
  [r \in 1..Len(t.rows) |->
     JoinPipe([c \in 1..Len(t.rows[r]) |-> ReplaceNewlines(t.rows[r][c])])]

\* re.sub calls the formatter with a fragment
InitTable ==
  /\ table \in Tables
  /\ fpc = "start"
  /\ rows = <<>>
  /\ NoEvaluation
  /\ NoExtraction
  /\ NoTokens /\ NoBucket /\ NoKeys /\ NoGeometry /\ NoPolicy

\* lines 275-294; alignments[i] raises IndexError for a column past the headers.
\* The text returned is the rows between blank lines, each row but the last
\* followed by a pipe and a newline.
HtmlTableToMd ==
  /\ fpc = "start"
  /\ IF Len(table.columns) > Len(table.headers)
       THEN /\ fpc' = "raised"
            /\ UNCHANGED rows
       ELSE /\ rows' = <<JoinPipe(table.headers), JoinPipe(AlignmentRow(table))>>
                         \o DataRows(table)
            /\ fpc' = "returned"
  /\ UNCHANGED <<evalvars, xvars, tvars, bvars, kvars, gvars, table, pvars>>

NextTable == HtmlTableToMd

SpecTable == InitTable /\ [][NextTable]_vars

\* ------------------------------------------------ index: the policy handling
\* what extract_text_from_file returns for an uploaded policy file, as pieces:
\* words, a blank, a newline
PolicyTexts == {<<>>, <<"p">>, <<"q", " ">>}

\* the files of the policy field: one with an empty filename (the field of a
\* form sent without a file), or one with a name and the text extracted from it
PolicyFiles ==
  {[filename |-> "", text |-> <<>>]}
    \cup [filename : {"policy.txt"}, text : PolicyTexts]

\* request.files.getlist('policy'): empty when the field is absent
PolicyFields == SeqsUpTo(PolicyFiles, MaxFiles)

IsWhite(c) == c \in {" ", "\n"}

\* str.strip()
RECURSIVE StripText(_)
StripText(t) ==
  IF t = <<>> THEN <<>>
  ELSE IF IsWhite(Head(t)) THEN StripText(Tail(t))
  ELSE IF IsWhite(t[Len(t)]) THEN StripText(SubSeq(t, 1, Len(t) - 1))
  ELSE t

\* lines 915-917: "\n" and the text of every file that has a filename
RECURSIVE UploadedText(_)
UploadedText(files) ==
  IF files = <<>> THEN <<>>
  ELSE (IF Head(files).filename # "" THEN <<"\n">> \o Head(files).text ELSE <<>>)
         \o UploadedText(Tail(files))

\* lines 911-922: policy_text when no static requirements are loaded; None
\* (Absent) can only come from get_cached_policy
PolicyText(files, cached) ==
  IF files # <<>>
    THEN (IF UploadedText(files) # <<>> THEN Some(UploadedText(files)) ELSE cached)
    ELSE Some(<<>>)

\* the server is up, no session has a cache directory yet
InitPolicy ==
  /\ static_requirements \in {Absent, Some(<<"s">>)}
  /\ policy_cache = [s \in Sessions |-> Absent]
  /\ uploaded = [s \in Sessions |-> Absent]
  /\ request = Absent
  /\ NoEvaluation
  /\ NoExtraction
  /\ NoTokens /\ NoBucket /\ NoKeys /\ NoGeometry /\ NoTable

\* what the handler records of a request
Handled(s, files, outcome, policy_text) ==
  Some([session |-> s, policy |-> files, cached |-> policy_cache[s],
        outcome |-> outcome, policy_text |-> policy_text])

\* lines 890-956 and 1045-1050: a POST with a submission file in session s.
\* The validation or an extraction can raise, which ends the request with the
\* error page; the policy is cached before the submission is extracted.
IndexPost(s, files) ==
  \/ /\ request' = Handled(s, files, "error", Absent)
     /\ UNCHANGED <<policy_cache, uploaded>>
  \/ /\ static_requirements # Absent
     /\ request' = Handled(s, files, "evaluated", static_requirements)
     /\ UNCHANGED <<policy_cache, uploaded>>
  \/ /\ static_requirements = Absent
     /\ LET policy_text == PolicyText(files, policy_cache[s])
            saved == files # <<>> /\ UploadedText(files) # <<>>
        IN /\ policy_cache' =
                IF saved
                  THEN [policy_cache EXCEPT ![s] = Some(StripText(policy_text[1]))]
                  ELSE policy_cache
           /\ uploaded' =
                IF saved THEN [uploaded EXCEPT ![s] = policy_text] ELSE uploaded
           /\ IF files # <<>> /\ ~saved /\ Get(policy_text, <<>>) = <<>>
                THEN request' = Handled(s, files, "no_policy", Absent)
                ELSE \E outcome \in {"evaluated", "error"} :
                       request' = Handled(s, files, outcome,
                                          IF outcome = "evaluated" THEN policy_text
                                                                   ELSE Absent)

Post ==
  /\ \E s \in Sessions : \E files \in PolicyFields : IndexPost(s, files)
  /\ UNCHANGED <<evalvars, xvars, tvars, bvars, kvars, gvars, fvars,
                 static_requirements>>

NextPolicy == Post

SpecPolicy == InitPolicy /\ [][NextPolicy]_vars

\* ------------------------------------------------------------------ claims
\* evaluate_requirements has returned a verdict
EvalReturned == pc \in {"returned", "rendered"}

\* evaluate_requirements has raised
EvalRaised == pc \in {"raised", "error_page"}

\* the requirements array of the parsed response
ParsedRequirements == Get(json_data[1].requirements, <<>>)

\* the summary of json_data as evaluate_requirements leaves it
ParsedSummary == Get(json_data[1].summary, EmptySummary)

PassTrue(item) == item.pass = Some(TRUE)

TaggedPartial(item) == item.pass_status = Some("PARTIAL")

NumPassed(a) == Cardinality({i \in DOMAIN a : PassTrue(a[i]) /\ ~TaggedPartial(a[i])})

NumPartial(a) == Cardinality({i \in DOMAIN a : PassTrue(a[i]) /\ TaggedPartial(a[i])})

NumFailed(a) == Cardinality({i \in DOMAIN a : ~PassTrue(a[i])})

\* C1: once evaluate_requirements has reconciled a parsed response, the four
\* summary fields of json_data read as the counts recomputed from the
\* requirements array (a field the model left out reads as 0, as the code reads
\* it), and whenever the reported counts differed all four fields hold the
\* recomputed counts; the scenario {2,2,0,0} becomes {3,1,1,1} with verdict RED.
SummaryEqualsRecomputedCounts ==
  EvalReturned =>
    /\ Get(ParsedSummary.totalChecks, 0) = Len(ParsedRequirements)
    /\ Get(ParsedSummary.passed, 0) = NumPassed(ParsedRequirements)
    /\ Get(ParsedSummary.partial, 0) = NumPartial(ParsedRequirements)
    /\ Get(ParsedSummary.failed, 0) = NumFailed(ParsedRequirements)
    /\ inconsistent =>
         ParsedSummary =
           [totalChecks |-> Some(Len(ParsedRequirements)),
            passed |-> Some(NumPassed(ParsedRequirements)),
            partial |-> Some(NumPartial(ParsedRequirements)),
            failed |-> Some(NumFailed(ParsedRequirements))]
    /\ payload = ScenarioObject =>
         /\ ParsedSummary = [totalChecks |-> Some(3), passed |-> Some(1),
                             partial |-> Some(1), failed |-> Some(1)]
         /\ status = "RED"

\* C1 witness: the scenario of three items reported as {2,2,0,0} has been
\* reconciled and its summary overwritten
ScenarioReconciled ==
  /\ pc = "returned"
  /\ payload = ScenarioObject
  /\ inconsistent
  /\ ParsedSummary.totalChecks = Some(3)

\* C2: the counts recomputed from any requirements array, and the summary
\* fields after reconciliation, satisfy passed + partial + failed = totalChecks,
\* with totalChecks the length of the array
CountsPartitionTotal ==
  /\ json_data # Absent =>
       /\ actual.totalChecks = Len(ParsedRequirements)
       /\ actual.passed + actual.partial + actual.failed = actual.totalChecks
  /\ EvalReturned =>
       Get(ParsedSummary.passed, 0) + Get(ParsedSummary.partial, 0)
         + Get(ParsedSummary.failed, 0) = Get(ParsedSummary.totalChecks, 0)

\* C2 witness: a reconciled array holding an item without pass, an item without
\* pass_status and a failed item tagged PARTIAL, under a wrong summary
OddItemsCounted ==
  /\ pc = "returned"
  /\ inconsistent
  /\ \E i, k \in DOMAIN ParsedRequirements :
       /\ ParsedRequirements[i] = [pass |-> Absent, pass_status |-> Absent]
       /\ ParsedRequirements[k] = [pass |-> Some(FALSE), pass_status |-> Some("PARTIAL")]

\* C3: the verdict is GREEN when no item failed and none is partial, otherwise
\* YELLOW when some item is partial and none failed, otherwise RED; so it is RED
\* exactly when some item does not pass
VerdictFollowsPrecedence ==
  EvalReturned =>
    /\ status =
         IF NumFailed(ParsedRequirements) = 0 /\ NumPartial(ParsedRequirements) = 0
           THEN "GREEN"
         ELSE IF NumPartial(ParsedRequirements) >= 1 /\ NumFailed(ParsedRequirements) = 0
           THEN "YELLOW"
         ELSE "RED"
    /\ status = "RED" <=>
         \E i \in DOMAIN ParsedRequirements : ~PassTrue(ParsedRequirements[i])

\* C3 witness: a verdict over an array with a partial item and a failed item
PartialAndFailedJudged ==
  /\ pc = "returned"
  /\ status = "RED"
  /\ \E i, k \in DOMAIN ParsedRequirements :
       /\ PassTrue(ParsedRequirements[i]) /\ TaggedPartial(ParsedRequirements[i])
       /\ ParsedRequirements[k].pass = Some(FALSE)

\* C4: a parsed response whose requirements array is empty or absent has
\* actual_total 0 and ends in an error or in RED, never in GREEN
EmptyArrayNeverGreen ==
  (json_data # Absent /\ ParsedRequirements = <<>>) =>
    /\ actual.totalChecks = 0
    /\ EvalRaised \/ status = "RED"

\* C5: a response that parses and carries a requirements array always gets a
\* verdict, whatever its summary is, a missing summary object included
InconsistentSummaryNeverRaises ==
  (json_data # Absent /\ json_data[1].requirements # Absent) => ~EvalRaised

\* C6: two answers with the same requirements array and different summaries get
\* the same verdict; an answer that carries a summary object always gets one;
\* an array of passing, non-partial items gets GREEN
VerdictIgnoresSummary ==
  /\ (pc = "returned" /\ prev \notin {"none", "raised"}) => status = prev
  /\ (pc = "raised" /\ json_data # Absent) => payload.summary = Absent
  /\ (pc = "returned"
        /\ \A i \in DOMAIN ParsedRequirements :
             PassTrue(ParsedRequirements[i]) /\ ~TaggedPartial(ParsedRequirements[i]))
       => status = "GREEN"

\* C6 witness: the second of two answers with two passing items has its
\* verdict, after a first answer judged GREEN, and its summary was wrong
SecondAnswerJudged ==
  /\ pc = "returned"
  /\ prev = "GREEN"
  /\ status = "GREEN"
  /\ inconsistent
  /\ Len(ParsedRequirements) = 2

\* C7: the reconciliation step applied to the object it has corrected finds no
\* inconsistency, leaves the object as it is and gives the same verdict
ReconcileIdempotent ==
  rerun # Absent =>
    /\ rerun[1].error = "none"
    /\ ~rerun[1].inconsistent
    /\ rerun[1].json_data = json_data[1]
    /\ rerun[1].status = status
    /\ rerun[1].actual = actual

\* C7 witness: the step has run again on an object whose summary the first run
\* had to overwrite
CorrectedObjectRerun ==
  /\ rerun # Absent
  /\ inconsistent
  /\ Len(ParsedRequirements) >= 1

\* C8: whenever the reported summary differed from the recomputed counts, the
\* summary handed on for display beside the verdict holds the recomputed counts
DeliveredSummaryIsCorrected ==
  (pc = "rendered" /\ inconsistent) =>
    /\ page[1].json_parsed # Absent
    /\ Get(page[1].json_parsed[1].summary, EmptySummary) =
         [totalChecks |-> Some(actual.totalChecks), passed |-> Some(actual.passed),
          partial |-> Some(actual.partial), failed |-> Some(actual.failed)]

\* the lexemes of a fenced block whose body starts with a brace: the fence at
\* i, the brace at p, only json and whitespace between them, a fence at q
FencedBlockAt(t, i, p, q) ==
  /\ i < p /\ p < q
  /\ t[i] = "F" /\ t[p] \in {"{", "P"} /\ t[q] = "F"
  /\ \A k \in (i + 1)..(p - 1) : t[k] = "n" \/ (k = i + 1 /\ t[k] = "j")

HasFencedBlock(t) ==
  \E i, p, q \in 1..Len(t) : FencedBlockAt(t, i, p, q)

\* opening braces less closing braces; the serialised object holds as many of
\* the one as of the other
NetDepth(s) ==
  Cardinality({k \in 1..Len(s) : s[k] = "{"}) - Cardinality({k \in 1..Len(s) : s[k] = "}"})

\* the places from the first brace on where the depth is back at zero
BalancedEnds(t) ==
  LET opens == {i \in 1..Len(t) : t[i] \in {"{", "P"}}
  IN IF opens = {} THEN {}
     ELSE LET first == CHOOSE i \in opens : \A k \in opens : i <= k
          IN {e \in first..Len(t) : NetDepth(SubSeq(t, first, e)) = 0}

\* a lexeme string that is a JSON object: the serialised object or an empty
\* pair of braces, with whitespace anywhere around
IsJsonText(s) ==
  SelectSeq(s, LAMBDA c : c # "n") \in {<<"P">>, <<"{", "}">>}

\* C9: a response without a fenced JSON block and without a brace, or whose
\* first brace never gets back to depth zero, ends in an error and no verdict;
\* so does an extracted text that is no JSON
NoJsonIsAnError ==
  /\ (pc # "invoked" /\ ~HasFencedBlock(text) /\ BalancedEnds(text) = {}) =>
       /\ EvalRaised
       /\ status = "none"
       /\ json_data = Absent
       /\ page # Absent => page[1].result = "none"
  /\ (pc \notin {"invoked", "extracted"} /\ json_str # Absent /\ ~IsJsonText(json_str[1])) =>
       /\ EvalRaised
       /\ status = "none"
       /\ page # Absent => page[1].result = "none"

\* C9 witness: the error page of a response whose first brace is never closed
UnbalancedRejected ==
  /\ pc = "error_page"
  /\ text = <<"t", "{", "{", "}">>
  /\ page[1].error = "ValueError: Response does not contain required JSON structure"

\* C10: the extracted text is the body of the first fenced block that starts
\* with a brace, up to that block's closing fence, when there is such a block;
\* otherwise it is the text from the first brace to the first place where the
\* depth is back at zero, and nothing when there is no such place
ExtractionTakesBlockBody ==
  (pc # "invoked" /\ text # <<>>) =>
    IF HasFencedBlock(text)
      THEN \E i, p, q \in 1..Len(text) :
             /\ FencedBlockAt(text, i, p, q)
             /\ \A i2, p2, q2 \in 1..Len(text) : FencedBlockAt(text, i2, p2, q2) => i <= i2
             /\ \A k \in (p + 1)..(q - 1) : text[k] # "F"
             /\ json_str = Some(Strip(SubSeq(text, p, q - 1)))
    ELSE IF BalancedEnds(text) # {}
      THEN \E e \in BalancedEnds(text) :
             /\ \A e2 \in BalancedEnds(text) : e <= e2
             /\ \E b \in 1..e :
                  /\ text[b] \in {"{", "P"}
                  /\ \A k \in 1..(b - 1) : text[k] \notin {"{", "P"}
                  /\ json_str = Some(SubSeq(text, b, e))
    ELSE json_str = Absent

\* the verdict words a response text holds
WordsIn(t) == {t[i] : i \in DOMAIN t} \cap VerdictWords

\* the text holds no brace and no serialised object
NoJsonObject(t) == \A i \in DOMAIN t : t[i] \notin {"{", "}", "P"}

\* C11: a response that holds no JSON object and names exactly one of the
\* words GREEN, YELLOW, ORANGE, RED is accepted: evaluate_requirements
\* returns, and its verdict is that word.
LegacyWordGivesVerdict ==
  (pc # "invoked" /\ NoJsonObject(text) /\ Cardinality(WordsIn(text)) = 1)
    => (EvalReturned /\ status \in WordsIn(text))

\* the call c has been made
Called(c) == \E i \in DOMAIN calls : calls[i] = c

\* how often the call c has been made
Count(c) == Cardinality({i \in DOMAIN calls : calls[i] = c})

\* the place of the call c among the calls
Pos(c) == CHOOSE i \in DOMAIN calls : calls[i] = c

LocalAttempts == {"to_markdown_strict", "to_markdown_default", "raw"}

LocalCalls == LocalAttempts \cup {"raw_text", "raw_blocks", "raw_dict"}

PdfSteps == LocalCalls \cup {"get_text", "table_scan", "textract"}

\* the text-layer test of the PDF has been made
TextLayerTested ==
  /\ filename \in {".pdf", ".PDF"}
  /\ xpc \notin {"start", "saved"}
  /\ xerror \notin {"save", "open"}

\* every page of the PDF gives blank text
EveryPageBlank ==
  \A p \in DOMAIN pages : \A i \in DOMAIN pages[p] : pages[p][i] = " "

\* C12: once the text layer of a PDF that has at least one page and only
\* blank pages has been tested, the document is classified image-based, the
\* call after the test is the OCR submission, and neither Markdown conversion
\* nor the raw per-page fallback is ever called.
ImagePdfWithPagesGoesStraightToOcr ==
  (TextLayerTested /\ Len(pages) > 0 /\ EveryPageBlank) =>
    /\ is_image_pdf
    /\ Len(calls) >= 2
    /\ calls[1] = "get_text"
    /\ calls[2] = "textract"
    /\ \A c \in LocalCalls : ~Called(c)

\* C12 witness: a scanned PDF of blank pages has come back from OCR
BlankScanReturnedFromOcr ==
  /\ TextLayerTested
  /\ Len(pages) > 0
  /\ EveryPageBlank
  /\ xpc = "returned"
  /\ Called("textract")

\* C12 as the specification words it: every PDF whose pages are all blank,
\* the PDF without pages included, goes to OCR with no local conversion.
EveryPageBlankGoesStraightToOcr ==
  (TextLayerTested /\ EveryPageBlank) =>
    /\ is_image_pdf
    /\ Len(calls) >= 2
    /\ calls[1] = "get_text"
    /\ calls[2] = "textract"
    /\ \A c \in LocalCalls : ~Called(c)

\* C13: for a .txt or .md source, whatever the two flags, no PDF step is
\* taken (no text-layer test, no local conversion, no table scan, no OCR call,
\* no table rejection), and the text handed to the final substitution is the
\* file's content as read.
TextFileSkipsPdfSteps ==
  filename \in {".txt", ".md"} =>
    /\ \A c \in PdfSteps : ~Called(c)
    /\ xerror \in {"none", "save", "read", "format"}
    /\ ocr_pc = "idle"
    /\ s3_object = "none"
    /\ ~has_html_tables /\ ~has_md_tables /\ ~is_empty_text /\ ~is_image_pdf
    /\ xpc = "substitute" => markdown_text = content
    /\ xpc = "returned" => ~Called("textract")

\* C13 witness: a Markdown file holding a pipe table is returned although
\* both flags are set
TableFileReturnedUnderBothFlags ==
  /\ filename = ".md"
  /\ reject_tables
  /\ prefer_ocr
  /\ \E i \in DOMAIN content : content[i] = "M"
  /\ xpc = "returned"
  /\ result = Some(content)

\* the table scan of a PDF has found a table
TablesFound ==
  /\ filename \in {".pdf", ".PDF"}
  /\ Called("table_scan")
  /\ has_html_tables \/ has_md_tables

\* C14: for a PDF whose extracted text holds a table: with rejectTables the
\* call has failed with the error that names the document and has returned
\* nothing, preferOcrForTables or not; without it OCR has been called exactly
\* when preferOcrForTables is set or the document was classified image-based;
\* with neither, no OCR call is made and the call goes on with the local text.
TablesRejectedOrRoutedByFlags ==
  TablesFound =>
    /\ reject_tables =>
         /\ xpc = "raised"
         /\ xerror = "tables"
         /\ ErrorNamesFile(xerror)
         /\ result = Absent
    /\ ~reject_tables => (Called("textract") <=> (prefer_ocr \/ is_image_pdf))
    /\ (~reject_tables /\ ~prefer_ocr /\ ~is_image_pdf) =>
         /\ ~Called("textract")
         /\ xpc \in {"substitute", "limit", "returned", "raised"}
         /\ xerror \in {"none", "format"}

\* C14 witness: a PDF with a table is rejected although preferOcrForTables
\* is set too
TablesRejectedDespiteOcrFlag ==
  /\ TablesFound
  /\ reject_tables
  /\ prefer_ocr
  /\ xerror = "tables"

\* C15: whatever path the extraction took, the returned text holds no
\* <table ...>...</table> fragment.
ReturnedTextHasNoHtmlTable ==
  xpc = "returned" =>
    ~\E i \in DOMAIN result[1] : \E j \in DOMAIN result[1] :
        i < j /\ result[1][i] = "<" /\ result[1][j] = ">"

\* C16: on every return, with budget B = max_chars and the untruncated text
\* markdown_text: if B > 0 the result has at most B characters and is the
\* first B characters of the text when the text is longer; if B <= 0 or the
\* text has at most B characters the result is the text.
ResultWithinBudget ==
  xpc = "returned" =>
    /\ max_chars > 0 => Len(result[1]) <= max_chars
    /\ (max_chars > 0 /\ Len(markdown_text) > max_chars) =>
         result[1] = [i \in 1..max_chars |-> markdown_text[i]]
    /\ (max_chars <= 0 \/ Len(markdown_text) <= max_chars) =>
         result[1] = markdown_text

\* C16 witness: an OCR text longer than a positive budget is returned cut
OcrTextCutToBudget ==
  /\ xpc = "returned"
  /\ Called("textract")
  /\ max_chars > 0
  /\ Len(markdown_text) > max_chars
  /\ Len(result[1]) = max_chars

\* C17: the local attempts on a PDF are made at most once each and in the
\* order strict conversion, default conversion, raw fallback; the default
\* conversion is made only after the strict one raised, the raw fallback only
\* after both raised, so nothing follows the first success; inside the raw
\* fallback the blocks call follows a text call and the dict call follows a
\* blocks call; the call fails for want of a local text only when all three
\* attempts have raised.
LocalAttemptsInOrder ==
  /\ \A c \in LocalAttempts : Count(c) <= 1
  /\ failed \subseteq {c \in LocalAttempts : Called(c)}
  /\ (\E c \in LocalCalls : Called(c)) =>
       /\ Called("to_markdown_strict")
       /\ \A c \in LocalCalls \ {"to_markdown_strict"} :
            Called(c) => Pos("to_markdown_strict") < Pos(c)
  /\ Called("to_markdown_default") => "to_markdown_strict" \in failed
  /\ Called("raw") =>
       /\ {"to_markdown_strict", "to_markdown_default"} \subseteq failed
       /\ Pos("to_markdown_default") < Pos("raw")
  /\ \A i \in DOMAIN calls :
       /\ calls[i] = "raw_text" => Called("raw") /\ Pos("raw") < i
       /\ calls[i] = "raw_blocks" => calls[i - 1] = "raw_text"
       /\ calls[i] = "raw_dict" => calls[i - 1] = "raw_blocks"
  /\ xerror = "extract" => failed = LocalAttempts

\* C17 witness: both conversions raised and the text of the raw fallback,
\* which went as far as the dict call, is returned
RawFallbackTextUsed ==
  /\ xpc = "returned"
  /\ failed = {"to_markdown_strict", "to_markdown_default"}
  /\ Called("raw_dict")
  /\ ~Called("textract")

\* C18: a successful return of extract_text_from_file never hands back the
\* empty string.
NeverReturnsEmptyText == xpc = "returned" => result # Some(<<>>)

\* C19: when extract_text_from_file has returned or raised, the temporary
\* file it created no longer exists.
TempFileGoneAtExit == xpc \in {"returned", "raised"} => temp_file # "exists"

\* C20: analyze_pdf_with_textract eventually returns or raises, whatever the
\* job status the polls report.
OcrWaitEnds == <>(xpc # "ocr")

\* the blocks of the responses rs, in order
RECURSIVE BlocksOf(_)
BlocksOf(rs) == IF rs = <<>> THEN <<>> ELSE rs[1].Blocks \o BlocksOf(Tail(rs))

\* C21: analyze_pdf_with_textract sleeps and polls again only while the job is
\* neither SUCCEEDED nor FAILED and holds no result page before SUCCEEDED; when
\* the loop over the pages has ended, all_blocks is the blocks of the first
\* result page and of every following page in order, each page but the last
\* came with a token and the last without; a FAILED job ends the call with an
\* exception carrying the StatusMessage and without blocks or text.
OcrResultIsPagesInOrder ==
  /\ fetched # <<>> => job_status = "SUCCEEDED"
  /\ ocr_pc = "sleep" => job_status \notin {"SUCCEEDED", "FAILED"}
  /\ ocr_pc = "collect" =>
       /\ job_status = "SUCCEEDED"
       /\ fetched # <<>>
       /\ all_blocks = BlocksOf(fetched)
       /\ next_token = fetched[Len(fetched)].NextToken
       /\ \A i \in 1..(Len(fetched) - 1) : fetched[i].NextToken # Absent
  /\ job_status = "FAILED" =>
       /\ xpc = "raised"
       /\ ocr_exception = Some(<<"Textract job failed: ",
                                 IF status_message = Absent
                                   THEN "Unknown error" ELSE status_message[1]>>)
       /\ all_blocks = <<>>
       /\ fetched = <<>>
       /\ result = Absent

\* two result pages have been fetched and the loop over the pages has ended
TwoPagesCollected ==
  /\ xpc = "ocr"
  /\ ocr_pc = "collect"
  /\ next_token = Absent
  /\ Len(fetched) = 2
  /\ all_blocks = <<"PAGE", "LINE", "WORD">>

\* C22: in every interleaving of the calls of ensure_s3_bucket, each call that
\* returns has the one bucket name, no call is ended by BucketAlreadyOwnedByYou,
\* OperationAborted or BucketAlreadyExists (such a call goes on to return), and
\* a call whose create_bucket gave another error code has raised.
BucketRaceTolerated ==
  \A c \in Callers :
    /\ bpc[c] = "returned" =>
         bucket_name[c] = Some(<<"spectater", "-textract-", "account", "-", "region">>)
    /\ bpc[c] = "raised" =>
         error_code[c] \notin {"BucketAlreadyOwnedByYou", "OperationAborted",
                               "BucketAlreadyExists"}
    /\ error_code[c] \in {"BucketAlreadyOwnedByYou", "OperationAborted",
                          "BucketAlreadyExists"} =>
         bpc[c] \in {"recheck", "returned"}
    /\ error_code[c] = "AccessDenied" => bpc[c] = "raised"

\* one call created the bucket while the other was refused with
\* OperationAborted, and both have returned
BothReturnAfterRace ==
  /\ \A c \in Callers : bpc[c] = "returned"
  /\ bucket = "exists"
  /\ \E c \in Callers : error_code[c] = "OperationAborted"
  /\ \E c \in Callers : error_code[c] = "none"

\* C23: in every interleaving of the calls of analyze_pdf_with_textract, also
\* for equal file names, the calls have distinct object keys, a call's object
\* holds its own document from the upload to its own clean-up, and a job has
\* read no document but that of its call.
StagedObjectsAreOwn ==
  \A c \in Callers :
    /\ \A d \in Callers \ {c} :
         object_key[c] # Absent /\ object_key[d] # Absent =>
           object_key[c] # object_key[d]
    /\ kpc[c] \in {"staged", "started", "read"} =>
         [Key |-> object_key[c][1], Doc |-> c] \in bucket_objects
    /\ job_input[c] \in {0, c}
    /\ kpc[c] \in {"read", "done"} => job_input[c] = c

\* two calls for files of one name: one has cleaned up after its job while
\* the other's document is still staged and is read by its job
SameNameStagedApart ==
  /\ file_name[1] = file_name[2]
  /\ kpc[1] = "done"
  /\ kpc[2] = "read"
  /\ job_input[2] = 2
  /\ bucket_objects = {[Key |-> object_key[2][1], Doc |-> 2]}

\* whether the rounded top-left corner of line box l lies in the rounded
\* rectangle of cell box c, bounds included
CornerInCell(l, c) ==
  /\ (c.top + 1) \div 3 <= (l.top + 1) \div 3
  /\ (l.top + 1) \div 3 <= (c.top + 1) \div 3 + (c.height + 1) \div 3
  /\ (c.left + 1) \div 3 <= (l.left + 1) \div 3
  /\ (l.left + 1) \div 3 <= (c.left + 1) \div 3 + (c.width + 1) \div 3

Apart(a, b) ==
  \/ a.left + a.width <= b.left
  \/ b.left + b.width <= a.left
  \/ a.top + a.height <= b.top
  \/ b.top + b.height <= a.top

\* whether box a lies in box b
Within(a, b) ==
  /\ b.top <= a.top
  /\ a.top + a.height <= b.top + b.height
  /\ b.left <= a.left
  /\ a.left + a.width <= b.left + b.width

\* cells apart from each other, lines apart from each other, and every line
\* either within the cell that holds its words or apart from every cell
BoxesApart ==
  /\ \A k, m \in DOMAIN page_cells : k # m => Apart(page_cells[k], page_cells[m])
  /\ \A i, j \in DOMAIN page_lines :
       i # j => Apart(page_lines[i].box, page_lines[j].box)
  /\ \A i \in DOMAIN page_lines :
       IF page_lines[i].cell = 0
         THEN \A k \in DOMAIN page_cells : Apart(page_lines[i].box, page_cells[k])
         ELSE Within(page_lines[i].box, page_cells[page_lines[i].cell])

\* C25: when the boxes of a page do not overlap, every line is after the
\* conversion either in the body or in a table, once, and not in both.
EveryLineExactlyOnce ==
  gpc = "done" /\ BoxesApart =>
    \A i \in DOMAIN page_lines :
      Cardinality({j \in DOMAIN body : body[j] = i})
        + Cardinality({j \in DOMAIN folded : folded[j] = i}) = 1

\* the columns of a joined row: one more than its pipes
RECURSIVE PipeColumns(_)
PipeColumns(row) ==
  IF row = <<>> THEN 1
  ELSE (IF Head(row) = "|" THEN 1 ELSE 0) + PipeColumns(Tail(row))

\* C26: the formatter's rows start with the header row, then the alignment row
\* of one marker per header column (--- left or default, :---: center, ---:
\* right), before any data row, and every row has the header's column count.
EveryRowHasHeaderColumns ==
  fpc = "returned" =>
    LET n == Len(table.headers)
    IN /\ Len(rows) = 2 + Len(table.rows)
       /\ PipeColumns(rows[1]) = n
       /\ PipeColumns(rows[2]) = n
       /\ \A i \in 1..n :
            rows[2][2 * i - 1] =
              (IF i > Len(table.columns) \/ table.columns[i] = "LEFT" THEN "---"
               ELSE IF table.columns[i] = "CENTER" THEN ":---:" ELSE "---:")
       /\ \A r \in 1..Len(rows) : PipeColumns(rows[r]) = n

\* C27: max_tokens is floor(2*B/3) of the prompt's byte length B, raised to the
\* minimum 5000; a positive MAX_TOKENS replaces the computed value, subject to
\* the same minimum; max_tokens is never below 5000.
ConfiguredValueDeterminesMaxTokens ==
  max_tokens # Absent =>
    /\ max_tokens[1] >= 5000
    /\ configured_max_tokens > 0 =>
         max_tokens[1] = Max(5000, configured_max_tokens)
    /\ configured_max_tokens <= 0 =>
         max_tokens[1] = Max(5000, (2 * input_bytes) \div 3)

\* C28: one call of extract_text_from_file calls analyze_pdf_with_textract
\* at most once.
OcrSubmittedAtMostOnce == Count("textract") <= 1

\* C29: a request that is evaluated has a policy text that is not empty; with
\* no static requirements, no uploaded policy file (field absent, or files
\* with empty filenames only) and no cached policy of the session, a request
\* that passes the validation ends with the "No policy document available"
\* error and is not evaluated.
EmptyPolicyNeverEvaluated ==
  request # Absent =>
    LET r == request[1]
    IN /\ r.outcome = "evaluated" => r.policy_text \notin {Absent, Some(<<>>)}
       /\ ( /\ static_requirements = Absent
            /\ \A i \in DOMAIN r.policy : r.policy[i].filename = ""
            /\ r.cached = Absent
            /\ r.outcome # "error" ) => r.outcome = "no_policy"

\* C30: without static requirements, a request without a policy file is
\* evaluated against the text (not blank) its own session uploaded last, an upload
\* replaces the cached policy of its session, and the cached policy of a
\* session is never anything but that session's last upload.
PolicyFollowsSession ==
  static_requirements = Absent =>
    /\ \A s \in Sessions :
         policy_cache[s] =
           (IF uploaded[s] = Absent THEN Absent
                                    ELSE Some(StripText(uploaded[s][1])))
    /\ request # Absent =>
         LET r == request[1]
             upload == \E i \in DOMAIN r.policy : r.policy[i].filename # ""
         IN /\ ( /\ ~upload
                 /\ uploaded[r.session] # Absent
                 /\ StripText(uploaded[r.session][1]) # <<>>
                 /\ r.outcome # "error" ) =>
                 /\ r.outcome = "evaluated"
                 /\ r.policy_text # Absent
                 /\ StripText(r.policy_text[1]) = StripText(uploaded[r.session][1])
            /\ (upload /\ r.outcome = "evaluated") =>
                 /\ r.policy_text = uploaded[r.session]
                 /\ policy_cache[r.session] = Some(StripText(r.policy_text[1]))

====
